---- MODULE Spec2Model ----
(***************************************************************************)
(* A model of the tapo library: the Plug facade, the KLAP session and the  *)
(* Passthrough session, with the device as a nondeterministic HTTP peer.   *)
(***************************************************************************)
EXTENDS Integers, Sequences, FiniteSets, TLC

(***************************************************************************)
(* Bounds of the model.                                                    *)
(***************************************************************************)
\* number of calls the caller makes on one plug
MaxCalls == 3

\* the largest number of retries a plug is built with
MaxRetries == 1

\* number of refreshes of tapoweb's device list
MaxRefresh == 2

\* number of HTTP requests tapoweb serves
MaxRequests == 2

\* number of datagrams one Discover receives
MaxDatagrams == 3

\* length of the byte strings the XOR loop is run on
MaxLen == 3

(***************************************************************************)
(* Strings: the Go string helpers used by the cookie parsers.              *)
(***************************************************************************)
IsSpace(c) == c \in {" ", "\t"}

Min(S) == CHOOSE i \in S : \A j \in S : i <= j
Max(S) == CHOOSE i \in S : \A j \in S : i >= j

\* the positions of s that hold the character c
Positions(s, c) == {i \in 1..Len(s) : SubSeq(s, i, i) = c}

\* textproto.TrimString: strips leading and trailing ASCII whitespace
TrimString(s) ==
    LET keep == {i \in 1..Len(s) : ~IsSpace(SubSeq(s, i, i))} IN
    IF keep = {} THEN "" ELSE SubSeq(s, Min(keep), Max(keep))

\* strings.Index for a one-character separator; 0 when absent
IndexOf(s, c) ==
    IF Positions(s, c) = {} THEN 0 ELSE Min(Positions(s, c))

\* strings.Cut
Cut(s, c) ==
    LET i == IndexOf(s, c) IN
    IF i = 0
    THEN [before |-> s, after |-> "", ok |-> FALSE]
    ELSE [before |-> SubSeq(s, 1, i - 1),
          after  |-> SubSeq(s, i + 1, Len(s)),
          ok     |-> TRUE]

\* strings.Split for a one-character separator: the pieces between
\* consecutive separators
Split(s, c) ==
    LET cuts == Positions(s, c) \cup {0, Len(s) + 1}
        nth(k) == CHOOSE i \in cuts : Cardinality({j \in cuts : j < i}) = k
    IN  [k \in 1..(Cardinality(cuts) - 1) |->
            SubSeq(s, nth(k - 1) + 1, nth(k) - 1)]

(***************************************************************************)
(* Bytes.  A byte is a record [alg, src, i]: byte number i of the value    *)
(* named alg computed from src.  Values that come from outside (seeds,     *)
(* strings, key blobs, junk) have an empty src.  A digest is a one-way     *)
(* injective function of its input: its bytes carry the input, run-length  *)
(* compressed, as src.                                                     *)
(***************************************************************************)
Bytes(name, n) == [i \in 1..n |-> [alg |-> name, src |-> <<>>, i |-> i]]

\* []byte(s) for a Go string s
StrBytes(s) == Bytes(s, 1)

\* run-length compression: consecutive bytes of one value become one run
Compact(x) ==
    LET starts == {i \in 1..Len(x) :
                      \/ i = 1
                      \/ x[i].alg # x[i - 1].alg
                      \/ x[i].src # x[i - 1].src
                      \/ x[i].i # x[i - 1].i + 1}
        cuts   == starts \cup {Len(x) + 1}
        nth(k) == CHOOSE i \in cuts : Cardinality({j \in cuts : j < i}) = k
    IN  [k \in 1..Cardinality(starts) |->
            [alg |-> x[nth(k - 1)].alg, src |-> x[nth(k - 1)].src,
             lo  |-> x[nth(k - 1)].i,   hi  |-> x[nth(k) - 1].i]]

Digest(name, n, x) ==
    [i \in 1..n |-> [alg |-> name, src |-> Compact(x), i |-> i]]

\* crypto/sha1.Sum: 20 bytes
Sha1Sum(x) == Digest("sha1", 20, x)

\* crypto/sha256.Sum256: 32 bytes
Sha256Sum(x) == Digest("sha256", 32, x)

(***************************************************************************)
(* strconv.ParseInt(s, 10, 64) on short decimal strings.                   *)
(***************************************************************************)
DigitVal(c) ==
    CASE c = "0" -> 0 [] c = "1" -> 1 [] c = "2" -> 2 [] c = "3" -> 3
      [] c = "4" -> 4 [] c = "5" -> 5 [] c = "6" -> 6 [] c = "7" -> 7
      [] c = "8" -> 8 [] c = "9" -> 9 [] OTHER -> -1

RECURSIVE ParseDigits(_, _)
ParseDigits(s, acc) ==
    IF Len(s) = 0 THEN [ok |-> TRUE, val |-> acc]
    ELSE IF DigitVal(Head(s)) < 0 THEN [ok |-> FALSE, val |-> 0]
    ELSE ParseDigits(Tail(s), acc * 10 + DigitVal(Head(s)))

ParseInt(s) ==
    IF Len(s) = 0 THEN [ok |-> FALSE, val |-> 0]
    ELSE IF Head(s) \in {"+", "-"}
    THEN IF Len(s) = 1 THEN [ok |-> FALSE, val |-> 0]
         ELSE LET r == ParseDigits(Tail(s), 0) IN
              [ok |-> r.ok, val |-> IF Head(s) = "-" THEN 0 - r.val ELSE r.val]
    ELSE ParseDigits(s, 0)

(***************************************************************************)
(* Cookies.                                                                *)
(***************************************************************************)
\* a parser that trims the values too
RECURSIVE PartsToCookies_TrimValue(_)
PartsToCookies_TrimValue(parts) ==
    IF Len(parts) = 0 THEN <<>>
    ELSE LET c == Cut(Head(parts), "=") IN
         (IF c.ok
          THEN <<[Name |-> TrimString(c.before),
                  Value |-> TrimString(c.after)]>>
          ELSE <<>>)
         \o PartsToCookies_TrimValue(Tail(parts))

\* the cookies of one Set-Cookie line: every part that holds a "="
RECURSIVE PartsToCookies(_)
PartsToCookies(parts) ==
    IF Len(parts) = 0 THEN <<>>
    ELSE LET c == Cut(Head(parts), "=") IN
         (IF c.ok
          THEN <<[Name |-> TrimString(c.before), Value |-> c.after]>>
          ELSE <<>>)
         \o PartsToCookies(Tail(parts))

\* parseBrokenCookies: setCookie is the sequence of Set-Cookie header lines
RECURSIVE parseBrokenCookies(_)
parseBrokenCookies(setCookie) ==
    IF Len(setCookie) = 0 THEN <<>>
    ELSE PartsToCookies(Split(TrimString(Head(setCookie)), ";"))
         \o parseBrokenCookies(Tail(setCookie))

(***************************************************************************)
(* The plug and the credentials.                                           *)
(***************************************************************************)
PlugAddr == "192.168.0.10"

Usernames == {"user", "other"}
Passwords == {"pass1234"}

\* the account the device was set up with
DevUsername == "user"
DevPassword == "pass1234"

(***************************************************************************)
(* KLAP session.                                                           *)
(***************************************************************************)
\* time.Time: the zero value, or now + d seconds
ZeroTime == [set |-> FALSE, secs |-> 0]
NowPlus(d) == [set |-> TRUE, secs |-> d]

\* a KlapSession as NewKlapSession leaves it: every field unassigned
KlapSessionZero ==
    [addr |-> "", SessionID |-> "", Expiry |-> ZeroTime,
     LocalSeed |-> <<>>, RemoteSeed |-> <<>>, LocalAuthHash |-> <<>>]

\* local_auth_hash = SHA-256(SHA-1(username) || SHA-1(password))
AuthHash(username, password) ==
    Sha256Sum(Sha1Sum(StrBytes(username)) \o Sha1Sum(StrBytes(password)))

\* the hash that handshake1 compares with the server hash
SeedAuthHash(localSeed, remoteSeed, localAuthHash) ==
    Sha256Sum(localSeed \o remoteSeed \o localAuthHash)

\* the cookie loop of handshake1, lines 153-163
RECURSIVE ScanCookies(_, _)
ScanCookies(cookies, acc) ==
    IF Len(cookies) = 0 \/ acc.err THEN acc
    ELSE LET c == Head(cookies) IN
         IF c.Name = "TP_SESSIONID"
         THEN ScanCookies(Tail(cookies), [acc EXCEPT !.sessionID = c.Value])
         ELSE IF c.Name = "TIMEOUT"
         THEN LET t == ParseInt(c.Value) IN
              IF ~t.ok THEN [acc EXCEPT !.err = TRUE]
              ELSE ScanCookies(Tail(cookies),
                               [acc EXCEPT !.expiry = NowPlus(t.val)])
         ELSE ScanCookies(Tail(cookies), acc)

\* a comparison that only looks at the lengths
bytesEqual_LengthOnly(a, b) == Len(a) = Len(b)

\* bytes.Equal, line 179
bytesEqual(a, b) == a = b

\* handshake1 from the arrival of the response on.  resp.net is FALSE when
\* the POST or the read of the body failed.  body[16:] panics when the body
\* is shorter than 16 bytes.
handshake1(s, username, password, localSeed, resp) ==
    IF ~resp.net THEN [err |-> "http post failed", s |-> s]
    ELSE
    LET scan == ScanCookies(parseBrokenCookies(resp.setCookie),
                            [sessionID |-> "", expiry |-> ZeroTime,
                             err |-> FALSE])
    IN
    IF scan.err THEN [err |-> "invalid timeout string", s |-> s]
    ELSE IF Len(resp.body) < 16 THEN [err |-> "panic", s |-> s]
    ELSE
    LET remoteSeed    == SubSeq(resp.body, 1, 16)
        serverHash    == SubSeq(resp.body, 17, Len(resp.body))
        localAuthHash == AuthHash(username, password)
    IN
    IF ~bytesEqual(SeedAuthHash(localSeed, remoteSeed, localAuthHash),
                   serverHash)
    THEN [err |-> "authentication failed", s |-> s]
    ELSE [err |-> "",
          s   |-> [s EXCEPT !.SessionID = scan.sessionID,
                            !.Expiry = scan.expiry,
                            !.LocalSeed = localSeed,
                            !.RemoteSeed = remoteSeed,
                            !.LocalAuthHash = localAuthHash]]

\* a handshake2 that hashes the local seed first
Handshake2Payload_LocalFirst(s) ==
    Sha256Sum(s.LocalSeed \o s.RemoteSeed \o s.LocalAuthHash)

\* the body that handshake2 posts
Handshake2Payload(s) ==
    Sha256Sum(s.RemoteSeed \o s.LocalSeed \o s.LocalAuthHash)

\* a handshake2 that takes every answer for a success
handshake2_AnyStatus(s, resp) ==
    IF ~resp.net THEN "http POST failed" ELSE ""

\* handshake2 from the arrival of the response on
handshake2(s, resp) ==
    IF ~resp.net THEN "http POST failed"
    ELSE IF resp.status # 200 THEN "expected 200 OK"
    ELSE ""

\* an encrypt that returns its input
KlapEncrypt_Works(s, data) == [err |-> "", data |-> data]

\* KlapSession.encrypt
KlapEncrypt(s, data) ==
    [err |-> "KLAP encryption not implemented yet", data |-> <<>>]

\* KlapSession.Request up to the POST: encrypt fails, nothing is posted
KlapRequest(s, payload) ==
    LET e == KlapEncrypt(s, payload) IN
    IF e.err # "" THEN [err |-> "failed to encrypt payload", post |-> FALSE]
    ELSE [err |-> "", post |-> TRUE]

\* KlapSession.decrypt
KlapDecrypt(s, data) ==
    [err |-> "KLAP decryption not implemented yet", data |-> <<>>]

\* KlapSession.Request from the arrival of the response on, lines 61-77:
\* every status but 200 gives the same error
KlapRequestRecv(s, resp) ==
    IF ~resp.net THEN "http POST failed"
    ELSE IF resp.status # 200 THEN "expected 200 OK"
    ELSE IF KlapDecrypt(s, resp.body).err # ""
    THEN "failed to decrypt payload"
    ELSE ""

(***************************************************************************)
(* Passthrough session.                                                    *)
(***************************************************************************)
\* the RSA key pair generated by the handshake
RsaKey == "rsa-client"

\* a PassthroughSession as NewPassthroughSession leaves it
PassthroughSessionZero ==
    [Key |-> <<>>, IV |-> <<>>, ID |-> "", addr |-> "",
     username |-> "", password |-> "", token |-> "",
     privateKey |-> "", timeout |-> 0]

\* http.Response.Cookies of net/http: one cookie per Set-Cookie line, taken
\* from the part before the first ";"
RECURSIVE HttpCookies(_)
HttpCookies(setCookie) ==
    IF Len(setCookie) = 0 THEN <<>>
    ELSE LET parts == Split(TrimString(Head(setCookie)), ";")
             c     == Cut(TrimString(parts[1]), "=")
             name  == TrimString(c.before)
         IN  (IF c.ok /\ name # "" /\ IndexOf(name, " ") = 0
              THEN <<[Name |-> name, Value |-> c.after]>>
              ELSE <<>>)
             \o HttpCookies(Tail(setCookie))

\* a routing cookie that keeps the value only
SessionCookie_ValueOnly(value) == value

\* line 134: the routing cookie is the pair TP_SESSIONID=<value>
SessionCookie(value) == "TP_SESSIONID=" \o value

\* the loop of lines 131-137: the first TP_SESSIONID cookie
RECURSIVE FirstSessionID(_)
FirstSessionID(cookies) ==
    IF Len(cookies) = 0 THEN ""
    ELSE IF Head(cookies).Name = "TP_SESSIONID"
    THEN SessionCookie(Head(cookies).Value)
    ELSE FirstSessionID(Tail(cookies))

\* PassthroughSession.Handshake up to the POST, lines 69-98
PassthroughHandshakePost(p, addr, username, password) ==
    [p EXCEPT !.addr = addr, !.username = username, !.password = password,
              !.privateKey = RsaKey]

\* rsa.DecryptPKCS1v15: the blob comes out when it was wrapped for our key
RsaDecrypt(privkey, encryptedKey) ==
    IF encryptedKey.forKey = privkey
    THEN [ok |-> TRUE, plain |-> encryptedKey.blob]
    ELSE [ok |-> FALSE, plain |-> <<>>]

\* a length check that only rejects short blobs
SessionKeyLenOK_AtLeast(sessionKey) == Len(sessionKey) >= 32

\* the length check of line 128
SessionKeyLenOK(sessionKey) == Len(sessionKey) = 32

\* PassthroughSession.Handshake from the arrival of the response on,
\* lines 99-144
PassthroughHandshakeRecv(p, resp) ==
    IF ~resp.net THEN [err |-> "HTTP POST failed", s |-> p]
    ELSE IF resp.status # 200 THEN [err |-> "expected 200 OK", s |-> p]
    ELSE IF ~resp.jsonOk
    THEN [err |-> "failed to unmarshal JSON response", s |-> p]
    ELSE IF resp.errorCode # 0 THEN [err |-> "request failed", s |-> p]
    ELSE IF ~resp.key.b64ok
    THEN [err |-> "failed to base64-decode device encryption key", s |-> p]
    ELSE
    LET d == RsaDecrypt(p.privateKey, resp.key) IN
    IF ~d.ok THEN [err |-> "rsa.DecryptPKCS1v15 failed", s |-> p]
    ELSE IF ~SessionKeyLenOK(d.plain)
    THEN [err |-> "session key length is not 32 bytes", s |-> p]
    ELSE
    LET sessionID == FirstSessionID(HttpCookies(resp.setCookie)) IN
    IF sessionID = ""
    THEN [err |-> "no TP_SESSIONID cookie found in HTTP response", s |-> p]
    ELSE [err |-> "",
          s   |-> [p EXCEPT !.Key = SubSeq(d.plain, 1, 16),
                            !.ID  = sessionID,
                            !.IV  = SubSeq(d.plain, 17, Len(d.plain))]]

\* encryption under an IV of zero bytes
AesCbc_ZeroIV(key, iv, data) ==
    [b64ok |-> TRUE, blocks |-> TRUE, padOk |-> TRUE,
     key |-> key, iv |-> Bytes("zero", 16), pt |-> data]

\* base64 of AES-CBC over PKCS#7-padded data, as a term: who holds the same
\* key and IV gets the data back
AesCbc(key, iv, data) ==
    [b64ok |-> TRUE, blocks |-> TRUE, padOk |-> TRUE,
     key |-> key, iv |-> iv, pt |-> data]

\* encryptRequest: aes.NewCipher rejects a key that is not 16, 24 or 32
\* bytes; cipher.NewCBCEncrypter panics on an IV that is not 16 bytes
encryptRequest(s, req) ==
    IF Len(s.Key) \notin {16, 24, 32}
    THEN [err |-> "aes.NewCipher failed", out |-> <<>>]
    ELSE IF Len(s.IV) # 16 THEN [err |-> "panic", out |-> <<>>]
    ELSE [err |-> "", out |-> <<AesCbc(s.Key, s.IV, req)>>]

\* what decrypting with the wrong key or IV gives: bytes that are no JSON
Garbage ==
    [jsonOk |-> FALSE, errorCode |-> 0, token |-> "",
     ssidOk |-> FALSE, nickOk |-> FALSE, deviceOn |-> FALSE]

\* decryptResponse: CryptBlocks panics on input that is not full blocks
decryptResponse(s, r) ==
    IF ~r.b64ok
    THEN [err |-> "failed to base64-decode response", out |-> Garbage]
    ELSE IF Len(s.Key) \notin {16, 24, 32}
    THEN [err |-> "aes.NewCipher failed", out |-> Garbage]
    ELSE IF Len(s.IV) # 16 \/ ~r.blocks THEN [err |-> "panic", out |-> Garbage]
    ELSE IF ~r.padOk THEN [err |-> "pkcs7.Pad failed", out |-> Garbage]
    ELSE IF r.key = s.Key /\ r.iv = s.IV THEN [err |-> "", out |-> r.pt]
    ELSE [err |-> "", out |-> Garbage]

\* a URL that carries the token parameter even when no token is set
RequestURL_AlwaysToken(s) ==
    [host  |-> s.addr, path |-> "/app", query |-> "?token=" \o s.token]

\* the URL PassthroughSession.Request posts to, lines 163-166
RequestURL(s) ==
    [host  |-> s.addr, path |-> "/app",
     query |-> IF s.token # "" THEN "?token=" \o s.token ELSE ""]

\* PassthroughSession.Request up to the POST, lines 148-174
PassthroughRequestPost(s, requestBytes) ==
    LET e == encryptRequest(s, requestBytes) IN
    IF e.err # "" /\ e.err # "panic"
    THEN [err |-> "failed to encrypt request", post |-> FALSE,
          url |-> RequestURL(s), cookie |-> "", body |-> <<>>]
    ELSE IF e.err = "panic"
    THEN [err |-> "panic", post |-> FALSE,
          url |-> RequestURL(s), cookie |-> "", body |-> <<>>]
    ELSE [err |-> "", post |-> TRUE,
          url |-> RequestURL(s), cookie |-> s.ID,
          body |-> <<[method |-> "securePassthrough", request |-> e.out[1]]>>]

\* a Request that drops the token when the request fails
SessionAfterRequest_DropToken(s, err) ==
    IF err # "" THEN [s EXCEPT !.token = ""] ELSE s

\* the session as PassthroughSession.Request leaves it: lines 147-202 assign
\* to no field of s
SessionAfterRequest(s, err) == s

\* a Request that decrypts the response before it looks at the status and
\* at the error_code of the envelope
PassthroughRequestRecv_DecryptFirst(s, resp) ==
    LET d   == decryptResponse(s, resp.response)
        err == IF ~resp.net THEN "HTTP POST failed"
               ELSE IF d.err = "panic" THEN "panic"
               ELSE IF d.err # "" THEN "failed to decrypt response"
               ELSE IF resp.status # 200 THEN "expected 200 OK"
               ELSE IF ~resp.jsonOk THEN "failed to unmarshal JSON response"
               ELSE IF resp.errorCode # 0 THEN "request failed"
               ELSE ""
    IN  [err |-> err,
         out |-> IF err = "" THEN d.out ELSE Garbage,
         payload |-> IF err = "" THEN <<d.out>> ELSE <<>>,
         decrypted |-> resp.net,
         s   |-> SessionAfterRequest(s, err)]

\* PassthroughSession.Request from the arrival of the response on,
\* lines 175-201; s is the session as the call leaves it, payload the bytes
\* returned (<<>> for nil) and decrypted tells whether decryptResponse was
\* called
PassthroughRequestRecv(s, resp) ==
    LET fail(err) == [err |-> err, out |-> Garbage, payload |-> <<>>,
                      decrypted |-> FALSE, s |-> SessionAfterRequest(s, err)]
    IN
    IF ~resp.net THEN fail("HTTP POST failed")
    ELSE IF resp.status # 200 THEN fail("expected 200 OK")
    ELSE IF ~resp.jsonOk THEN fail("failed to unmarshal JSON response")
    ELSE IF resp.errorCode # 0 THEN fail("request failed")
    ELSE
    LET d   == decryptResponse(s, resp.response)
        err == IF d.err = "panic" THEN "panic"
               ELSE IF d.err # "" THEN "failed to decrypt response"
               ELSE ""
    IN  [err |-> err,
         out |-> IF err = "" THEN d.out ELSE Garbage,
         payload |-> IF err = "" THEN <<d.out>> ELSE <<>>,
         decrypted |-> TRUE,
         s   |-> SessionAfterRequest(s, err)]

(***************************************************************************)
(* Wire commands.                                                          *)
(***************************************************************************)
B64(x) == [b64 |-> x]
HexLower(x) == [hex |-> x]

InnerRequest(method, username, password, deviceOn) ==
    [method |-> method, username |-> username, password |-> password,
     deviceOn |-> deviceOn]

NoParam == B64(<<>>)

NewLoginDeviceRequest(username, password) ==
    InnerRequest("login_device",
                 B64(HexLower(Sha1Sum(StrBytes(username)))),
                 B64(StrBytes(password)), FALSE)

NewGetDeviceInfoRequest == InnerRequest("get_device_info", NoParam, NoParam, FALSE)

NewSetDeviceInfoRequest(deviceOn) ==
    InnerRequest("set_device_info", NoParam, NoParam, deviceOn)

NewGetDeviceUsageRequest == InnerRequest("get_device_usage", NoParam, NoParam, FALSE)

NewGetEnergyUsageRequest == InnerRequest("get_energy_usage", NoParam, NoParam, FALSE)

\* the typed operations of the plug and the request each of them sends
TypedOps ==
    {"GetDeviceInfo", "SetDeviceInfo", "On", "Off", "IsOn", "GetDeviceUsage",
     "GetEnergyUsage"}

OpRequest(op) ==
    CASE op \in {"GetDeviceInfo", "IsOn"}    -> NewGetDeviceInfoRequest
      [] op \in {"SetDeviceInfo", "On"}      -> NewSetDeviceInfoRequest(TRUE)
      [] op = "Off"                          -> NewSetDeviceInfoRequest(FALSE)
      [] op = "GetDeviceUsage"               -> NewGetDeviceUsageRequest
      [] op = "GetEnergyUsage"               -> NewGetEnergyUsageRequest

(***************************************************************************)
(* HTTP requests as the device sees them.                                  *)
(***************************************************************************)
NoJson == [method |-> "", key |-> "", request |-> <<>>]

KlapPost(addr, path, cookie, body) ==
    [url    |-> [host |-> addr, path |-> path, query |-> ""],
     cookie |-> cookie, body |-> body, json |-> NoJson]

\* the POST of PassthroughSession.Handshake: no cookie, the public key
HandshakePost(p) ==
    [url    |-> [host |-> p.addr, path |-> "/app", query |-> ""],
     cookie |-> "", body |-> <<>>,
     json   |-> [method |-> "handshake", key |-> p.privateKey,
                 request |-> <<>>]]

\* the POST of PassthroughSession.Request
RequestPost(r) ==
    [url    |-> r.url, cookie |-> r.cookie, body |-> <<>>,
     json   |-> [method |-> r.body[1].method, key |-> "",
                 request |-> <<r.body[1].request>>]]

(***************************************************************************)
(* The device: what it may answer.                                         *)
(***************************************************************************)
LocalSeeds == {Bytes("local-seed", 16)}
RemoteSeed == Bytes("remote-seed", 16)
Tokens == {"tokA", "tokB"}

GoodCookie == "TP_SESSIONID=abc;TIMEOUT=86400"
BadTimeoutCookie == "TP_SESSIONID=abc;TIMEOUT=oops"

\* the body a conforming device answers handshake1 with
DeviceHs1Body(localSeed) ==
    RemoteSeed \o SeedAuthHash(localSeed, RemoteSeed,
                               AuthHash(DevUsername, DevPassword))

Hs1Responses(localSeed) ==
    {[net |-> FALSE, status |-> 0, body |-> <<>>, setCookie |-> <<>>]}
    \cup
    [net : {TRUE}, status : {200, 403}, body : {<<>>, RemoteSeed},
     setCookie : {<<GoodCookie>>}]
    \cup
    [net : {TRUE}, status : {200, 403},
     body : {DeviceHs1Body(localSeed), RemoteSeed \o Bytes("junk", 32)},
     setCookie : {<<>>, <<GoodCookie>>, <<BadTimeoutCookie>>}]

Hs2Responses ==
    {[net |-> FALSE, status |-> 0], [net |-> TRUE, status |-> 200],
     [net |-> TRUE, status |-> 403]}

\* the session ids the device hands out in its Passthrough handshake
PtSessionIDs == {"passA", "passB"}

\* what the device has in store for a request to /app/request
KlapResponses ==
    {[net |-> FALSE, status |-> 0, body |-> <<>>]}
    \cup [net : {TRUE}, status : {200, 403, 500}, body : {Bytes("sealed", 16)}]

WrappedKey(b64ok, forKey, n) ==
    [b64ok |-> b64ok, forKey |-> forKey, blob |-> Bytes("session-key", n)]

PtHandshakeResponse(net, status, jsonOk, errorCode, key, setCookie) ==
    [net |-> net, status |-> status, jsonOk |-> jsonOk,
     errorCode |-> errorCode, key |-> key, setCookie |-> setCookie]

PtHandshakeResponses ==
    {PtHandshakeResponse(FALSE, 0, FALSE, 0, WrappedKey(FALSE, "", 0), <<>>),
     PtHandshakeResponse(TRUE, 403, FALSE, 0, WrappedKey(FALSE, "", 0), <<>>),
     PtHandshakeResponse(TRUE, 200, FALSE, 0, WrappedKey(FALSE, "", 0), <<>>),
     PtHandshakeResponse(TRUE, 200, TRUE, 1003, WrappedKey(FALSE, "", 0), <<>>),
     PtHandshakeResponse(TRUE, 200, TRUE, 0, WrappedKey(FALSE, "", 0),
                         <<"TP_SESSIONID=passA">>),
     PtHandshakeResponse(TRUE, 200, TRUE, 0, WrappedKey(TRUE, "rsa-other", 32),
                         <<"TP_SESSIONID=passA">>),
     PtHandshakeResponse(TRUE, 200, TRUE, 0, WrappedKey(TRUE, RsaKey, 32), <<>>),
     PtHandshakeResponse(TRUE, 200, TRUE, 0, WrappedKey(TRUE, RsaKey, 32),
                         <<"TIMEOUT=1440">>),
     PtHandshakeResponse(TRUE, 200, TRUE, 0, WrappedKey(TRUE, RsaKey, 32),
                         <<"TIMEOUT=1440", "TP_SESSIONID=passB">>)}
    \cup
    {PtHandshakeResponse(TRUE, 200, TRUE, 0, WrappedKey(TRUE, RsaKey, n),
                         <<"TP_SESSIONID=passA;TIMEOUT=1440">>) :
        n \in {0, 16, 31, 32, 33, 48}}

InnerResponse(jsonOk, errorCode, token, ssidOk, nickOk) ==
    [jsonOk |-> jsonOk, errorCode |-> errorCode, token |-> token,
     ssidOk |-> ssidOk, nickOk |-> nickOk, deviceOn |-> TRUE]

Sealed(b64ok, blocks, padOk, key, iv, pt) ==
    [b64ok |-> b64ok, blocks |-> blocks, padOk |-> padOk,
     key |-> key, iv |-> iv, pt |-> pt]

PtResponse(net, status, jsonOk, errorCode, response) ==
    [net |-> net, status |-> status, jsonOk |-> jsonOk,
     errorCode |-> errorCode, response |-> response]

\* answers to a securePassthrough request; inner are the inner replies a
\* device holding the session's key and IV may seal
PtResponses(s, inner) ==
    LET none == Sealed(FALSE, TRUE, TRUE, <<>>, <<>>, Garbage) IN
    {PtResponse(FALSE, 0, FALSE, 0, none),
     PtResponse(TRUE, 403, FALSE, 0, none),
     PtResponse(TRUE, 200, FALSE, 0, none),
     PtResponse(TRUE, 200, TRUE, 9999, none),
     PtResponse(TRUE, 200, TRUE, 1003, none),
     PtResponse(TRUE, 200, TRUE, 0, none),
     PtResponse(TRUE, 200, TRUE, 0,
                Sealed(TRUE, FALSE, TRUE, s.Key, s.IV, Garbage)),
     PtResponse(TRUE, 200, TRUE, 0,
                Sealed(TRUE, TRUE, FALSE, s.Key, s.IV, Garbage)),
     PtResponse(TRUE, 200, TRUE, 0,
                Sealed(TRUE, TRUE, TRUE, Bytes("other-key", 16), s.IV,
                       InnerResponse(TRUE, 0, "tokA", TRUE, TRUE)))}
    \cup
    {PtResponse(TRUE, 200, TRUE, 0, Sealed(TRUE, TRUE, TRUE, s.Key, s.IV, i)) :
        i \in inner}

LoginInner ==
    {InnerResponse(FALSE, 0, "", TRUE, TRUE),
     InnerResponse(TRUE, -1501, "", TRUE, TRUE),
     InnerResponse(TRUE, 0, "", TRUE, TRUE)}
    \cup {InnerResponse(TRUE, 0, t, TRUE, TRUE) : t \in Tokens}

OpInner ==
    {InnerResponse(FALSE, 0, "", TRUE, TRUE),
     InnerResponse(TRUE, 9999, "", TRUE, TRUE),
     InnerResponse(TRUE, 0, "", TRUE, TRUE),
     InnerResponse(TRUE, 0, "", FALSE, TRUE),
     InnerResponse(TRUE, 0, "", TRUE, FALSE)}

(***************************************************************************)
(* State.                                                                  *)
(***************************************************************************)
VARIABLES
    pc,          \* where the caller's current call stands: "idle", "hs1",
                 \* "hs2", "pt_hs", "pt_login", "op" or "crashed"
    session,     \* Plug.session: "nil", "ks" or "ps"
    ks,          \* the KlapSession made by the last Plug.Handshake, as long
                 \* as it lives: up to the next call when the plug dropped it
    ps,          \* the PassthroughSession made by the last Plug.Handshake,
                 \* likewise
    cur,         \* the call in progress or just returned, with its arguments
    localSeed,   \* the localSeed of the last handshake1
    result,      \* what the last call returned
    sent,        \* the HTTP requests posted by the current or last call
    hs1Resp,     \* the answer to the handshake1 of this call, if any
    hs2Resp,     \* the answer to the handshake2 of this call, if any
    klapErr,     \* what ks.Handshake returned in this call
    ptHsResp,    \* the answer to the Passthrough handshake of this call
    ptErr,       \* what ps.Handshake returned in this call
    lastReq,     \* the session before and after the
                 \* PassthroughSession.Request of this call
    klapReq,     \* the KlapSession.Request of this call: the answer the
                 \* device has in store, whether the request was posted and
                 \* the error returned
    retriesOnForbidden,          \* Plug.retriesOnForbidden
    retriesOnCommunicationError, \* Plug.retriesOnCommunicationError
    issuedToken, \* the token of the last successful login_device reply
    handshaken,  \* some Plug.Handshake has returned nil
    ncalls       \* number of calls made so far

\* the state of cmd/tapoweb
VARIABLES
    devices,     \* getRootHandler's variable devices, shared by the refresh
                 \* goroutine and the HTTP handlers
    failed,      \* getRootHandler's variable failed, shared likewise
    refresher,   \* the refresh goroutine: where it stands, the number of its
                 \* refresh and what getAllDevices returned to it
    handler,     \* the goroutines serving HTTP requests: for each its
                 \* position and local variables
    nreq         \* number of HTTP requests accepted so far

plugVars == <<pc, session, ks, ps, cur, localSeed, result, sent, hs1Resp,
              hs2Resp, klapErr, ptHsResp, ptErr, lastReq, klapReq,
              retriesOnForbidden, retriesOnCommunicationError, issuedToken,
              handshaken, ncalls>>

webVars == <<devices, failed, refresher, handler, nreq>>

\* the state of one call of Client.Discover
VARIABLES
    now,         \* the time since the call began, in seconds
    sender,      \* the goroutine of lines 431-447: its round i, the packet it
                 \* writes next and the packets written so far
    discover     \* the calling goroutine: where it stands, the datagrams it
                 \* has read, its locals ret and errs, the read deadline of
                 \* the socket and what it returned

discVars == <<now, sender, discover>>

\* one call of a function of the package: encryptRequest and
\* decryptResponse, the XOR loop of Discover, parseBrokenCookies
VARIABLES
    arg,         \* the function called and its argument
    res          \* what it returned, once it has

fnVars == <<arg, res>>

\* what runs beside the plug
others == <<webVars, discVars, fnVars>>

vars == <<plugVars, others>>

\* no function called
FnZero ==
    /\ arg = [fn |-> ""]
    /\ res = [done |-> FALSE]

\* no Discover called
DiscZero ==
    /\ now = 0
    /\ sender = [pc |-> "off", i |-> 0, next |-> "v1", v1 |-> 0, v2 |-> 0]
    /\ discover = [pc |-> "off", received |-> <<>>, ret |-> <<>>,
                   errs |-> <<>>, deadline |-> 0,
                   out |-> [ret |-> <<>>, errs |-> <<>>, err |-> ""]]

\* the goroutines of net/http that serve requests at the same time
Handlers == {"h1", "h2"}

\* a handler goroutine between two requests
HandlerIdle ==
    [pc |-> "idle", cmd |-> "", ip |-> "", snap |-> <<>>, i |-> 0,
     found |-> FALSE, status |-> 0, msg |-> ""]

\* tapoweb not started
WebZero ==
    /\ devices = <<>>
    /\ failed = <<>>
    /\ refresher = [pc |-> "off", gen |-> 0, ret |-> <<>>]
    /\ handler = [h \in Handlers |-> HandlerIdle]
    /\ nreq = 0

\* the options a plug is built with
opts == <<retriesOnForbidden, retriesOnCommunicationError>>

\* TapoError.Error: the symbolic name of a status
TapoErrorString(te) ==
    CASE te = 0 -> "Success"
      [] te = -1010 -> "Invalid Public Key Length"
      [] te = -1012 -> "Invalid terminalUUID"
      [] te = -1501 -> "Invalid Request or Credentials"
      [] te = 1002 -> "Incorrect Request"
      [] te = -1003 -> "JSON formatting error"
      [] te = 1003 -> "Communication error"
      [] te = 9999 -> "Session timeout"
      [] OTHER -> "Unknown error: " \o ToString(te)

\* fmt.Errorf("request failed: %s", code): the verb %s keeps the text of the
\* status; the error wraps nothing, so errors.Is and errors.As find no
\* TapoError in it
StatusError(err, code) ==
    [text |-> err \o ": " \o TapoErrorString(code), unwraps |-> {}]

\* what a call returns: err is the kind of its error ("" for none), code the
\* error_code that caused it (0 for none), text the message of the error and
\* unwraps the statuses a caller finds in the error with errors.As
Result(op, err, code) ==
    LET e == IF code # 0 THEN StatusError(err, code)
             ELSE [text |-> err, unwraps |-> {}]
    IN  [op |-> op, err |-> err, code |-> code,
         text |-> e.text, unwraps |-> e.unwraps]

\* no PassthroughSession.Request made yet
NoReq ==
    [called |-> FALSE, before |-> PassthroughSessionZero,
     after |-> PassthroughSessionZero, status |-> 0, errorCode |-> 0,
     sealed |-> <<>>, decrypted |-> FALSE, payload |-> FALSE, err |-> ""]

\* a PassthroughSession.Request that found s, got resp and returned r:
\* sealed tells how result.response of the envelope was made, payload
\* whether the call returned bytes
Req(s, resp, r) ==
    [called |-> TRUE, before |-> s, after |-> r.s,
     status |-> IF resp.net THEN resp.status ELSE 0,
     errorCode |-> resp.errorCode,
     sealed |-> <<[b64ok |-> resp.response.b64ok,
                   blocks |-> resp.response.blocks,
                   padOk |-> resp.response.padOk]>>,
     decrypted |-> r.decrypted, payload |-> r.payload # <<>>, err |-> r.err]

\* no KlapSession.Request made
NoKlapReq == [called |-> FALSE, resp |-> <<>>, posted |-> FALSE, err |-> ""]

\* NewPlug without options: no session, no retries
PlugZero ==
    /\ pc = "idle"
    /\ retriesOnForbidden = 0
    /\ retriesOnCommunicationError = 0
    /\ klapReq = NoKlapReq
    /\ session = "nil"
    /\ ks = KlapSessionZero
    /\ ps = PassthroughSessionZero
    /\ cur = [op |-> "", username |-> "", password |-> ""]
    /\ localSeed = <<>>
    /\ result = Result("", "", 0)
    /\ sent = <<>>
    /\ hs1Resp = <<>>
    /\ hs2Resp = <<>>
    /\ klapErr = ""
    /\ ptHsResp = <<>>
    /\ ptErr = ""
    /\ lastReq = NoReq
    /\ issuedToken = ""
    /\ handshaken = FALSE
    /\ ncalls = 0

\* one plug and its caller; nothing else runs
Init == PlugZero /\ WebZero /\ DiscZero /\ FnZero

\* NewPlug with OptionRetryOnForbidden and OptionRetryOnCommunicationError:
\* no session, the retries as the options set them
InitWithOptions ==
    /\ pc = "idle"
    /\ retriesOnForbidden \in 0..MaxRetries
    /\ retriesOnCommunicationError \in 0..MaxRetries
    /\ klapReq = NoKlapReq
    /\ session = "nil"
    /\ ks = KlapSessionZero
    /\ ps = PassthroughSessionZero
    /\ cur = [op |-> "", username |-> "", password |-> ""]
    /\ localSeed = <<>>
    /\ result = Result("", "", 0)
    /\ sent = <<>>
    /\ hs1Resp = <<>>
    /\ hs2Resp = <<>>
    /\ klapErr = ""
    /\ ptHsResp = <<>>
    /\ ptErr = ""
    /\ lastReq = NoReq
    /\ issuedToken = ""
    /\ handshaken = FALSE
    /\ ncalls = 0
    /\ WebZero
    /\ DiscZero
    /\ FnZero

(***************************************************************************)
(* Plug.Handshake.                                                         *)
(***************************************************************************)
\* a call begins: the sessions that an earlier Plug.Handshake made and did
\* not keep are gone with it, and nothing of this call has happened yet
CallBegins ==
    /\ hs1Resp' = <<>>
    /\ hs2Resp' = <<>>
    /\ klapErr' = ""
    /\ ptHsResp' = <<>>
    /\ ptErr' = ""
    /\ lastReq' = NoReq
    /\ localSeed' = <<>>
    /\ UNCHANGED opts

\* the sessions that are still referenced when a call begins
LiveKs == IF session = "ks" THEN ks ELSE KlapSessionZero
LivePs == IF session = "ps" THEN ps ELSE PassthroughSessionZero

\* a Handshake that never negotiates
HandshakeNeeded_Never(sess) == FALSE

\* a Handshake that always negotiates a new session
HandshakeNeeded_Always(sess) == TRUE

\* line 67: the handshake is run only when the plug has no session
HandshakeNeeded(sess) == sess = "nil"

\* Plug.Handshake, lines 66-70: nothing to do when the plug has a session,
\* else a new KlapSession posts its local seed to /app/handshake1
HandshakeCall(username, password, seed) ==
    /\ pc = "idle"
    /\ ncalls < MaxCalls
    /\ ncalls' = ncalls + 1
    /\ cur' = [op |-> "Handshake", username |-> username,
               password |-> password]
    /\ hs1Resp' = <<>>
    /\ hs2Resp' = <<>>
    /\ klapErr' = ""
    /\ ptHsResp' = <<>>
    /\ ptErr' = ""
    /\ lastReq' = NoReq
    /\ klapReq' = NoKlapReq
    /\ UNCHANGED opts
    /\ IF ~HandshakeNeeded(session)
       THEN /\ result' = Result("Handshake", "", 0)
            /\ sent' = <<>>
            /\ handshaken' = TRUE
            /\ ks' = LiveKs
            /\ ps' = LivePs
            /\ localSeed' = <<>>
            /\ UNCHANGED <<pc, session, issuedToken>>
       ELSE /\ ks' = [KlapSessionZero EXCEPT !.addr = PlugAddr]
            /\ ps' = LivePs
            /\ localSeed' = seed
            /\ sent' = <<KlapPost(PlugAddr, "/app/handshake1", "", seed)>>
            /\ pc' = "hs1"
            /\ UNCHANGED <<session, result, issuedToken, handshaken>>

\* a test of the KLAP result with the branches swapped
KlapFailed_Inverted(err) == err = ""

\* a test of the KLAP result that takes a failed authentication for final
KlapFailed_AuthFinal(err) == err \notin {"", "authentication failed"}

\* line 70: err != nil
KlapFailed(err) == err # ""

\* Plug.Handshake, lines 70-74 and 101-103: ks.Handshake has returned err.
\* When it failed a new PassthroughSession posts its handshake request to
\* /app, else the plug keeps the KLAP session
AfterKlap(err) ==
    /\ klapErr' = err
    /\ IF KlapFailed(err)
       THEN LET p == PassthroughHandshakePost(PassthroughSessionZero, PlugAddr,
                                              cur.username, cur.password)
            IN  /\ ps' = p
                /\ sent' = Append(sent, HandshakePost(p))
                /\ pc' = "pt_hs"
                /\ UNCHANGED <<session, result, handshaken>>
       ELSE /\ session' = "ks"
            /\ result' = Result("Handshake", "", 0)
            /\ handshaken' = TRUE
            /\ pc' = "idle"
            /\ UNCHANGED <<ps, sent>>

\* the answer to /app/handshake1 arrives: the rest of handshake1, then the
\* POST of handshake2, or the return of ks.Handshake with the error of
\* handshake1
Hs1Response(resp) ==
    /\ pc = "hs1"
    /\ hs1Resp' = <<resp>>
    /\ LET r == handshake1(ks, cur.username, cur.password, localSeed, resp) IN
       /\ ks' = r.s
       /\ IF r.err = "panic"
          THEN /\ pc' = "crashed"
               /\ klapErr' = "panic"
               /\ UNCHANGED <<session, ps, result, sent, handshaken>>
          ELSE IF r.err = ""
          THEN /\ sent' = Append(sent,
                      KlapPost(PlugAddr, "/app/handshake2",
                               "TP_SESSIONID=" \o r.s.SessionID,
                               Handshake2Payload(r.s)))
               /\ pc' = "hs2"
               /\ UNCHANGED <<session, ps, result, klapErr, handshaken>>
          ELSE AfterKlap(r.err)
    /\ UNCHANGED <<cur, localSeed, hs2Resp, ptHsResp, ptErr, lastReq,
                   klapReq, opts, issuedToken, ncalls>>

\* the answer to /app/handshake2 arrives: ks.Handshake returns
Hs2Response(resp) ==
    /\ pc = "hs2"
    /\ hs2Resp' = <<resp>>
    /\ AfterKlap(handshake2(ks, resp))
    /\ UNCHANGED <<ks, cur, localSeed, hs1Resp, ptHsResp, ptErr, lastReq,
                   klapReq, opts, issuedToken, ncalls>>

\* the answer to the Passthrough handshake arrives: lines 74-84, up to the
\* POST of login_device
PtHandshakeDone(resp) ==
    /\ pc = "pt_hs"
    /\ ptHsResp' = <<resp>>
    /\ LET r == PassthroughHandshakeRecv(ps, resp) IN
       /\ ptErr' = r.err
       /\ ps' = r.s
       /\ IF r.err # ""
          THEN /\ result' = Result("Handshake", "passthrough handshake failed",
                                   0)
               /\ pc' = "idle"
               /\ UNCHANGED sent
          ELSE LET q == PassthroughRequestPost(
                            r.s, NewLoginDeviceRequest(cur.username,
                                                       cur.password))
               IN  IF q.err = "panic"
                   THEN /\ pc' = "crashed"
                        /\ UNCHANGED <<result, sent>>
                   ELSE IF ~q.post
                   THEN /\ result' = Result("Handshake", "request failed", 0)
                        /\ pc' = "idle"
                        /\ UNCHANGED sent
                   ELSE /\ sent' = Append(sent, RequestPost(q))
                        /\ pc' = "pt_login"
                        /\ UNCHANGED result
    /\ UNCHANGED <<session, ks, cur, localSeed, hs1Resp, hs2Resp, klapErr,
                   lastReq, klapReq, opts, issuedToken, handshaken, ncalls>>

\* a login that keeps the session as soon as the request went through
LoginResult_KeepEarly(r) ==
    IF r.err # ""
    THEN [err |-> "request failed", code |-> 0, s |-> r.s, keep |-> FALSE]
    ELSE IF ~r.out.jsonOk
    THEN [err |-> "failed to unmarshal JSON response", code |-> 0,
          s |-> r.s, keep |-> TRUE]
    ELSE IF r.out.errorCode # 0
    THEN [err |-> "request failed", code |-> r.out.errorCode,
          s |-> r.s, keep |-> TRUE]
    ELSE IF r.out.token = ""
    THEN [err |-> "empty token returned by device", code |-> 0,
          s |-> r.s, keep |-> TRUE]
    ELSE [err |-> "", code |-> 0,
          s |-> [r.s EXCEPT !.token = r.out.token], keep |-> TRUE]

\* Plug.Handshake, lines 85-100: r is what ps.Request returned for
\* login_device; keep tells whether the plug takes ps as its session
LoginResult(r) ==
    IF r.err # ""
    THEN [err |-> "request failed", code |-> 0, s |-> r.s, keep |-> FALSE]
    ELSE IF ~r.out.jsonOk
    THEN [err |-> "failed to unmarshal JSON response", code |-> 0,
          s |-> r.s, keep |-> FALSE]
    ELSE IF r.out.errorCode # 0
    THEN [err |-> "request failed", code |-> r.out.errorCode,
          s |-> r.s, keep |-> FALSE]
    ELSE IF r.out.token = ""
    THEN [err |-> "empty token returned by device", code |-> 0,
          s |-> r.s, keep |-> FALSE]
    ELSE [err |-> "", code |-> 0,
          s |-> [r.s EXCEPT !.token = r.out.token], keep |-> TRUE]

\* the answer to login_device arrives: the rest of ps.Request, then the rest
\* of Plug.Handshake
PtLoginDone(resp) ==
    /\ pc = "pt_login"
    /\ LET r == PassthroughRequestRecv(ps, resp)
           l == LoginResult(r)
       IN  /\ lastReq' = Req(ps, resp, r)
           /\ IF r.err = "panic"
              THEN /\ pc' = "crashed"
                   /\ ps' = r.s
                   /\ UNCHANGED <<session, result, issuedToken, handshaken>>
              ELSE /\ pc' = "idle"
                   /\ ps' = l.s
                   /\ result' = Result("Handshake", l.err, l.code)
                   /\ session' = IF l.keep THEN "ps" ELSE session
                   /\ issuedToken' = IF l.err = "" THEN r.out.token
                                     ELSE issuedToken
                   /\ handshaken' = (handshaken \/ l.err = "")
    /\ UNCHANGED <<ks, cur, localSeed, sent, hs1Resp, hs2Resp, klapErr,
                   ptHsResp, ptErr, klapReq, opts, ncalls>>

(***************************************************************************)
(* The typed operations.                                                   *)
(***************************************************************************)
\* what a typed operation makes of the reply of session.Request: the lines
\* after the call of Request in GetDeviceInfo, SetDeviceInfo, GetDeviceUsage
\* and GetEnergyUsage
TypedResult(op, out) ==
    IF ~out.jsonOk
    THEN Result(op, "failed to unmarshal JSON response", 0)
    ELSE IF out.errorCode # 0
    THEN Result(op, "request failed", out.errorCode)
    ELSE IF op \in {"GetDeviceInfo", "IsOn"} /\ ~out.ssidOk
    THEN Result(op, "failed to base64-decode SSID", 0)
    ELSE IF op \in {"GetDeviceInfo", "IsOn"} /\ ~out.nickOk
    THEN Result(op, "failed to base64-decode Nickname", 0)
    ELSE Result(op, "", 0)

\* a typed operation that posts its request twice
OpPosts_Twice(q) == <<RequestPost(q), RequestPost(q)>>

\* the requests a typed operation posts: one call of session.Request, in no
\* loop
OpPosts(q) == <<RequestPost(q)>>

\* a check that lets every call through
NotLoggedIn_Never(sess) == FALSE

\* lines 111, 150, 176 and 202: p.session == nil
NotLoggedIn(sess) == sess = "nil"

\* a typed operation up to the POST of its request
OpCall(op) ==
    /\ pc = "idle"
    /\ ncalls < MaxCalls
    /\ ncalls' = ncalls + 1
    /\ cur' = [op |-> op, username |-> "", password |-> ""]
    /\ CallBegins
    /\ ks' = LiveKs
    /\ ps' = LivePs
    /\ IF NotLoggedIn(session)
       THEN /\ result' = Result(op, "not logged in", 0)
            /\ sent' = <<>>
            /\ klapReq' = NoKlapReq
            /\ UNCHANGED pc
       ELSE IF session = "nil"
       THEN \* a method call on a nil interface value panics
            /\ pc' = "crashed"
            /\ sent' = <<>>
            /\ klapReq' = NoKlapReq
            /\ UNCHANGED result
       ELSE IF session = "ks"
       THEN \E resp \in KlapResponses :
            LET q   == KlapRequest(ks, OpRequest(op))
                err == IF q.post THEN KlapRequestRecv(ks, resp) ELSE q.err
            IN  /\ klapReq' = [called |-> TRUE, resp |-> <<resp>>,
                               posted |-> q.post, err |-> err]
                /\ result' = IF err # ""
                             THEN Result(op, "request failed", 0)
                             ELSE TypedResult(op, Garbage)
                /\ sent' = IF q.post
                           THEN <<KlapPost(ks.addr, "/app/request", "",
                                           KlapEncrypt(ks, OpRequest(op)).data)>>
                           ELSE <<>>
                /\ UNCHANGED pc
       ELSE LET q == PassthroughRequestPost(ps, OpRequest(op)) IN
            /\ klapReq' = NoKlapReq
            /\ IF q.err = "panic"
               THEN /\ pc' = "crashed"
                    /\ sent' = <<>>
                    /\ UNCHANGED result
               ELSE IF ~q.post
               THEN /\ result' = Result(op, "request failed", 0)
                    /\ sent' = <<>>
                    /\ UNCHANGED pc
               ELSE /\ sent' = OpPosts(q)
                    /\ pc' = "op"
                    /\ UNCHANGED result
    /\ UNCHANGED <<session, issuedToken, handshaken>>

\* the answer to the request of a typed operation arrives
OpDone(resp) ==
    /\ pc = "op"
    /\ LET r == PassthroughRequestRecv(ps, resp) IN
       /\ lastReq' = Req(ps, resp, r)
       /\ ps' = r.s
       /\ IF r.err = "panic"
          THEN /\ pc' = "crashed"
               /\ UNCHANGED result
          ELSE /\ pc' = "idle"
               /\ result' = IF r.err # ""
                            THEN Result(cur.op, "request failed", 0)
                            ELSE TypedResult(cur.op, r.out)
    /\ UNCHANGED <<session, ks, cur, localSeed, sent, hs1Resp, hs2Resp,
                   klapErr, ptHsResp, ptErr, klapReq, opts, issuedToken,
                   handshaken, ncalls>>

(***************************************************************************)
(* The specification.                                                      *)
(***************************************************************************)
Next ==
    \/ /\ pc = "idle"
       /\ \E u \in Usernames, p \in Passwords, seed \in LocalSeeds :
             HandshakeCall(u, p, seed)
       /\ UNCHANGED others
    \/ /\ pc = "hs1"
       /\ \E resp \in Hs1Responses(localSeed) : Hs1Response(resp)
       /\ UNCHANGED others
    \/ /\ pc = "hs2"
       /\ \E resp \in Hs2Responses : Hs2Response(resp)
       /\ UNCHANGED others
    \/ /\ pc = "pt_hs"
       /\ \E resp \in PtHandshakeResponses : PtHandshakeDone(resp)
       /\ UNCHANGED others
    \/ /\ pc = "pt_login"
       /\ \E resp \in PtResponses(ps, LoginInner) : PtLoginDone(resp)
       /\ UNCHANGED others
    \/ /\ pc = "idle"
       /\ \E op \in TypedOps : OpCall(op)
       /\ UNCHANGED others
    \/ /\ pc = "op"
       /\ \E resp \in PtResponses(ps, OpInner) : OpDone(resp)
       /\ UNCHANGED others

Spec == Init /\ [][Next]_vars

\* the same plug, built with options
SpecWithOptions == InitWithOptions /\ [][Next]_vars

(***************************************************************************)
(* Properties.                                                             *)
(***************************************************************************)
IsHs1(e) == e.url.path = "/app/handshake1"
IsHs2(e) == e.url.path = "/app/handshake2"
IsKlap(e) == IsHs1(e) \/ IsHs2(e)
IsPtHandshake(e) == e.url.path = "/app" /\ e.json.method = "handshake"
IsSecure(e) == e.url.path = "/app" /\ e.json.method = "securePassthrough"
IsLogin(e) == IsSecure(e) /\ e.json.request[1].pt.method = "login_device"

\* the Passthrough handshake of the current Plug.Handshake has succeeded
PtHandshakeOK == Len(ps.Key) = 16 /\ Len(ps.IV) = 16 /\ ps.ID # ""

\* C1: in a Plug.Handshake the first request is the KLAP handshake1; the
\* Passthrough handshake is posted only after ks.Handshake has returned an
\* error and after nothing but KLAP requests; login_device is posted only
\* right after a Passthrough handshake that succeeded, and a call that ends
\* with the KLAP session has posted nothing but KLAP requests.
C1_KlapThenPassthroughThenLogin ==
    cur.op = "Handshake" =>
        /\ sent # <<>> => IsHs1(sent[1])
        /\ \A i \in 1..Len(sent) :
              /\ IsHs1(sent[i]) => i = 1
              /\ IsHs2(sent[i]) => i = 2
              /\ IsPtHandshake(sent[i]) =>
                    /\ i > 1
                    /\ klapErr \notin {"", "panic"}
                    /\ \A j \in 1..(i - 1) : IsKlap(sent[j])
              /\ IsLogin(sent[i]) =>
                    /\ i > 1
                    /\ IsPtHandshake(sent[i - 1])
                    /\ ptErr = ""
                    /\ PtHandshakeOK
                    /\ session # "ks"
        /\ (klapErr = "" /\ pc = "idle") =>
              \A i \in 1..Len(sent) : IsKlap(sent[i])

C1_Witness ==
    /\ cur.op = "Handshake"
    /\ pc = "pt_login"
    /\ Len(sent) = 4
    /\ IsHs1(sent[1]) /\ IsHs2(sent[2])
    /\ IsPtHandshake(sent[3]) /\ IsLogin(sent[4])

\* C2: a typed operation called before any Plug.Handshake has succeeded
\* returns the error "not logged in" and posts nothing.
C2_NoRequestBeforeHandshake ==
    (cur.op \in TypedOps /\ ~handshaken) =>
        /\ pc = "idle"
        /\ result = Result(cur.op, "not logged in", 0)
        /\ sent = <<>>

\* a typed operation refused on a plug whose handshake has failed before
C2_Witness ==
    /\ cur.op \in TypedOps
    /\ ~handshaken
    /\ ncalls >= 2
    /\ result.err = "not logged in"

\* C3: once a Plug.Handshake has succeeded the session never changes again,
\* and every later Plug.Handshake returns nil at once and posts nothing.
C3_SessionRetained ==
    [][handshaken =>
          /\ session' = session
          /\ session = "ks" => ks' = ks
          /\ session = "ps" => ps' = ps
          /\ (ncalls' # ncalls /\ cur'.op = "Handshake") =>
                /\ pc' = "idle"
                /\ result' = Result("Handshake", "", 0)
                /\ sent' = <<>>]_vars

\* a Handshake with other credentials than the session's that returned nil
\* and posted nothing, after a typed operation on the session
C3_Witness ==
    /\ handshaken
    /\ ncalls = 3
    /\ cur.op = "Handshake"
    /\ session = "ps"
    /\ cur.username # ps.username
    /\ ps.token # ""
    /\ result = Result("Handshake", "", 0)
    /\ sent = <<>>

\* C4 (as claimed): after the device has answered /app/handshake1 with 403
\* the Plug.Handshake goes on with the Passthrough handshake, and ends with
\* the Passthrough session when that handshake and the login succeeded.
C4_FallbackOn403 ==
    (cur.op = "Handshake" /\ sent # <<>> /\ hs1Resp # <<>>
        /\ hs1Resp[1].net /\ hs1Resp[1].status = 403) =>
        /\ pc \in {"pt_hs", "pt_login", "idle"}
        /\ Len(sent) >= 2 /\ IsPtHandshake(sent[2])
        /\ session # "ks"
        /\ (pc = "idle" /\ result.err = "") => session = "ps"

\* C5: a Plug.Handshake that returns an error has seen KLAP fail and leaves
\* the plug without a session; a plug without a session refuses every typed
\* operation without posting, and its next Plug.Handshake starts with the
\* KLAP handshake1 again.
C5_FailedHandshakeLeavesPlugNew ==
    /\ [](/\ (pc = "idle" /\ cur.op = "Handshake" /\ result.err # "") =>
                /\ session = "nil"
                /\ klapErr \notin {"", "panic"}
          /\ (pc = "idle" /\ cur.op = "Handshake" /\ klapErr # ""
                /\ (ptErr # "" \/ ps.token = "")) =>
                /\ result.err # ""
                /\ session = "nil"
          /\ (pc = "idle" /\ session = "nil" /\ cur.op \in TypedOps) =>
                /\ result = Result(cur.op, "not logged in", 0)
                /\ sent = <<>>)
    /\ [][(session = "nil" /\ ncalls' # ncalls /\ cur'.op = "Handshake") =>
             /\ pc' = "hs1"
             /\ Len(sent') = 1 /\ IsHs1(sent'[1])
             /\ session' = "nil"]_vars

\* a Handshake restarted at handshake1 after a Handshake whose login failed
C5_Witness ==
    /\ pc = "hs1"
    /\ ncalls >= 2
    /\ session = "nil"
    /\ result.op = "Handshake"
    /\ result.err \in {"request failed", "empty token returned by device"}

\* the answer to the handshake1 of the current Plug.Handshake has arrived
Hs1Got ==
    /\ cur.op = "Handshake" /\ sent # <<>>
    /\ hs1Resp # <<>> /\ hs1Resp[1].net

\* that answer holds a remote seed and a server hash (the bytes after the
\* first 16) that is not SHA-256(local_seed || remote_seed || local_auth_hash)
HashDiffers ==
    /\ Hs1Got
    /\ Len(hs1Resp[1].body) >= 16
    /\ SubSeq(hs1Resp[1].body, 17, Len(hs1Resp[1].body))
          # Sha256Sum(localSeed \o SubSeq(hs1Resp[1].body, 1, 16)
                      \o AuthHash(cur.username, cur.password))

\* that answer carries a TIMEOUT cookie that is no integer
BadTimeout ==
    LET cookies == parseBrokenCookies(hs1Resp[1].setCookie) IN
    \E i \in 1..Len(cookies) :
        cookies[i].Name = "TIMEOUT" /\ ~ParseInt(cookies[i].Value).ok

NoHs2 == \A i \in 1..Len(sent) : ~IsHs2(sent[i])

KsUnassigned ==
    /\ ks.SessionID = "" /\ ks.Expiry = ZeroTime
    /\ ks.LocalSeed = <<>> /\ ks.RemoteSeed = <<>> /\ ks.LocalAuthHash = <<>>

\* C6 (as claimed): when the server hash of handshake1 differs, the KLAP
\* handshake fails with the authentication error, nothing is posted to
\* /app/handshake2 and the five session fields stay unassigned.
C6_AuthFailureOnMismatch ==
    HashDiffers =>
        /\ klapErr = "authentication failed"
        /\ NoHs2
        /\ KsUnassigned

\* C6 (amended): when the server hash of handshake1 differs, the KLAP
\* handshake fails, with the invalid-timeout error when the answer carries a
\* TIMEOUT cookie that is no integer and with the authentication error
\* otherwise; nothing is posted to /app/handshake2 and the five session
\* fields stay unassigned.
C6_FailureOnMismatch ==
    HashDiffers =>
        /\ klapErr = IF BadTimeout THEN "invalid timeout string"
                     ELSE "authentication failed"
        /\ NoHs2
        /\ KsUnassigned

\* a full-length answer with a wrong hash, refused as authentication failure
C6_Witness ==
    /\ HashDiffers
    /\ Len(hs1Resp[1].body) = 48
    /\ klapErr = "authentication failed"

\* C7 (as claimed): when the server hash differs during the plug's
\* handshake, Plug.Handshake returns an error and has posted nothing after
\* handshake1.
C7_AuthFailureEndsHandshake ==
    HashDiffers =>
        /\ pc = "idle"
        /\ result.op = "Handshake" /\ result.err # ""
        /\ Len(sent) = 1

\* C7 (amended): when the server hash differs during the plug's handshake,
\* the KLAP handshake fails and posts no handshake2, and Plug.Handshake goes
\* on: it posts the Passthrough handshake to /app, and it returns nil,
\* holding the Passthrough session, exactly when that handshake and
\* login_device succeed.
C7_AuthFailureFallsBack ==
    HashDiffers =>
        /\ klapErr \notin {"", "panic"}
        /\ NoHs2
        /\ Len(sent) >= 2 /\ IsPtHandshake(sent[2])
        /\ pc \in {"pt_hs", "pt_login", "idle", "crashed"}
        /\ pc = "idle" =>
              /\ result.err = "" <=> session = "ps"
              /\ result.err = "" <=> (ptErr = "" /\ ps.token # "")

\* a Plug.Handshake that returned nil after a failed KLAP authentication
C7_Witness ==
    /\ HashDiffers
    /\ klapErr = "authentication failed"
    /\ pc = "idle"
    /\ result = Result("Handshake", "", 0)
    /\ session = "ps"

\* C8: the requests of a Plug.Handshake to /app, the Passthrough handshake
\* and login_device, carry no token parameter, and the session has no token
\* while they are under way; the request of a typed operation goes to
\* /app?token=<t>, t being the token of the login_device reply, which the
\* session holds.
C8_TokenInURL ==
    /\ \A i \in 1..Len(sent) :
          sent[i].url.path = "/app" =>
             sent[i].url.query = IF cur.op = "Handshake" THEN ""
                                 ELSE "?token=" \o issuedToken
    /\ pc \in {"pt_hs", "pt_login"} => ps.token = ""
    /\ (cur.op \in TypedOps /\ sent # <<>>) =>
          /\ issuedToken \in Tokens
          /\ ps.token = issuedToken

C8_Witness ==
    /\ cur.op \in TypedOps
    /\ Len(sent) = 1
    /\ IsSecure(sent[1])
    /\ sent[1].url.query = "?token=tokB"

\* C9: PassthroughSession.Request leaves the session as it found it, key,
\* IV, cookie, token and address, whether it fails or succeeds, and so the
\* plug's session after a typed operation is the one before it.
C9_RequestKeepsSession ==
    lastReq.called =>
        /\ lastReq.after.Key = lastReq.before.Key
        /\ lastReq.after.IV = lastReq.before.IV
        /\ lastReq.after.ID = lastReq.before.ID
        /\ lastReq.after.token = lastReq.before.token
        /\ lastReq.after.addr = lastReq.before.addr
        /\ (cur.op \in TypedOps /\ sent # <<>> /\ pc \in {"idle", "crashed"}) =>
              ps = lastReq.before

\* a typed operation whose request failed on a logged-in session
C9_Witness ==
    /\ lastReq.called
    /\ cur.op \in TypedOps
    /\ sent # <<>>
    /\ pc = "idle"
    /\ result.err = "request failed"
    /\ lastReq.before.token # ""

\* the answer to the Passthrough handshake of the current Plug.Handshake has
\* arrived
PtHsGot == cur.op = "Handshake" /\ sent # <<>> /\ ptHsResp # <<>>

\* that answer got as far as the RSA unwrapping, which gave a blob
Unwrapped ==
    /\ PtHsGot
    /\ ptHsResp[1].net /\ ptHsResp[1].status = 200
    /\ ptHsResp[1].jsonOk /\ ptHsResp[1].errorCode = 0
    /\ ptHsResp[1].key.b64ok /\ ptHsResp[1].key.forKey = RsaKey

\* C10: the Passthrough handshake succeeds only when the unwrapped blob has
\* exactly 32 bytes, and then the key is its first 16 bytes and the IV its
\* last 16; with a blob of any other length it fails and leaves key, IV and
\* cookie unassigned.
C10_SessionKeyLength ==
    PtHsGot =>
        /\ ptErr = "" =>
              /\ Unwrapped
              /\ Len(ptHsResp[1].key.blob) = 32
              /\ ps.Key = SubSeq(ptHsResp[1].key.blob, 1, 16)
              /\ ps.IV = SubSeq(ptHsResp[1].key.blob, 17, 32)
        /\ (Unwrapped /\ Len(ptHsResp[1].key.blob) # 32) =>
              /\ ptErr # ""
              /\ pc = "idle" /\ result.err # ""
              /\ ps.Key = <<>> /\ ps.IV = <<>> /\ ps.ID = ""

\* a blob of 48 bytes, refused
C10_Witness ==
    /\ Unwrapped
    /\ Len(ptHsResp[1].key.blob) = 48
    /\ ptErr = "session key length is not 32 bytes"
    /\ ps.Key = <<>>

\* the cookies of the answer to the Passthrough handshake
PtHsCookies == HttpCookies(ptHsResp[1].setCookie)

\* that answer carries no TP_SESSIONID cookie
NoSessionCookie ==
    \A i \in 1..Len(PtHsCookies) : PtHsCookies[i].Name # "TP_SESSIONID"

\* C11: a Passthrough handshake whose answer carries no TP_SESSIONID cookie
\* fails and leaves key, IV and cookie unassigned; one that succeeds stores
\* the pair TP_SESSIONID=<value> of the first such cookie, and every
\* securePassthrough request sent afterwards, login_device and the typed
\* operations, carries that pair as its Cookie header.
C11_SessionCookie ==
    /\ (PtHsGot /\ ptHsResp[1].net /\ NoSessionCookie) =>
          /\ ptErr # ""
          /\ ps.Key = <<>> /\ ps.IV = <<>> /\ ps.ID = ""
    /\ (PtHsGot /\ ptErr = "") =>
          \E i \in 1..Len(PtHsCookies) :
             /\ PtHsCookies[i].Name = "TP_SESSIONID"
             /\ \A j \in 1..(i - 1) : PtHsCookies[j].Name # "TP_SESSIONID"
             /\ ps.ID = "TP_SESSIONID=" \o PtHsCookies[i].Value
    /\ \A i \in 1..Len(sent) :
          IsSecure(sent[i]) =>
             /\ sent[i].cookie = ps.ID
             /\ \E v \in PtSessionIDs : ps.ID = "TP_SESSIONID=" \o v

\* a 32-byte key came with no TP_SESSIONID cookie: refused
C11_Witness ==
    /\ Unwrapped
    /\ Len(ptHsResp[1].key.blob) = 32
    /\ NoSessionCookie
    /\ ptErr = "no TP_SESSIONID cookie found in HTTP response"
    /\ ps.ID = ""

\* the answer to handshake1 carries no TP_SESSIONID cookie
Hs1NoSessionCookie ==
    LET cookies == parseBrokenCookies(hs1Resp[1].setCookie) IN
    \A i \in 1..Len(cookies) : cookies[i].Name # "TP_SESSIONID"

\* C12 (as claimed): when the answer to handshake1 carries no TP_SESSIONID
\* cookie the KLAP handshake fails, once it is over, and nothing is posted
\* to /app/handshake2.
C12_MissingCookieFatal ==
    (Hs1Got /\ Hs1NoSessionCookie) =>
        /\ NoHs2
        /\ pc \notin {"hs1", "hs2"} => klapErr # ""

\* the TP_SESSIONID that handshake1 learns from the answer: the value of its
\* last TP_SESSIONID cookie, nothing when it has none
LearnedSessionID ==
    LET cookies == parseBrokenCookies(hs1Resp[1].setCookie)
        at == {i \in 1..Len(cookies) : cookies[i].Name = "TP_SESSIONID"}
    IN  IF at = {} THEN "" ELSE cookies[Max(at)].Value

\* C13: in a Plug.Handshake a request goes to /app/handshake2 only as the
\* second request, after an answer to handshake1 whose server hash is the
\* expected one; it carries the cookie TP_SESSIONID with the value learned
\* from that answer and the body SHA-256(remote_seed || local_seed ||
\* local_auth_hash); and once it is answered the KLAP handshake has
\* succeeded, the plug holding the KLAP session, exactly when the answer is
\* a 200.
C13_Handshake2 ==
    cur.op = "Handshake" =>
        /\ \A i \in 1..Len(sent) :
              IsHs2(sent[i]) =>
                 /\ i = 2 /\ IsHs1(sent[1])
                 /\ Hs1Got /\ ~HashDiffers /\ Len(hs1Resp[1].body) = 48
                 /\ sent[i].cookie = "TP_SESSIONID=" \o LearnedSessionID
                 /\ sent[i].body =
                       Sha256Sum(SubSeq(hs1Resp[1].body, 1, 16) \o localSeed
                                 \o AuthHash(cur.username, cur.password))
        /\ hs2Resp # <<>> =>
              /\ Len(sent) >= 2 /\ IsHs2(sent[2])
              /\ (klapErr = "") <=> (hs2Resp[1].net /\ hs2Resp[1].status = 200)
              /\ (klapErr = "") <=> (pc = "idle" /\ session = "ks"
                                      /\ result = Result("Handshake", "", 0))
        /\ (pc = "idle" /\ session = "ks" /\ sent # <<>>) =>
              /\ hs2Resp # <<>>
              /\ hs2Resp[1].status = 200

\* a handshake2 with the learned cookie, answered 200
C13_Witness ==
    /\ cur.op = "Handshake"
    /\ Len(sent) = 2 /\ IsHs2(sent[2])
    /\ sent[2].cookie = "TP_SESSIONID=abc"
    /\ hs2Resp # <<>> /\ hs2Resp[1].status = 200
    /\ session = "ks"

\* a typed operation on the KLAP session has returned
KlapOpReturned ==
    /\ cur.op \in TypedOps /\ session = "ks"
    /\ pc = "idle" /\ result.op = cur.op
    /\ klapReq.called

\* C14 (as claimed): on a KLAP session made by a handshake that completed
\* round 2, with a device that answers /app/request with 200, SetDeviceInfo
\* (true) posts its request and returns nil.
C14_KlapHappyPath ==
    (KlapOpReturned /\ cur.op \in {"SetDeviceInfo", "On"}
        /\ ks.SessionID # ""
        /\ klapReq.resp[1].net /\ klapReq.resp[1].status = 200) =>
        /\ klapReq.posted
        /\ result = Result(cur.op, "", 0)

\* C15 (as claimed): every typed operation on a KLAP session posts one
\* request to /app/request, the requests of a session being numbered in the
\* order they are posted.  KlapSession holds no counter, so the formula
\* states what the numbering rests on: the request is posted.
C15_SequenceAdvances ==
    KlapOpReturned =>
        /\ Len(sent) = 1
        /\ sent[1].url.path = "/app/request"

\* C16 (as claimed): KlapSession.Request returns the forbidden error when
\* the device answers 403 and a communication error, not the forbidden one,
\* when it answers with another status that is not 200.
C16_ForbiddenError ==
    (klapReq.called /\ klapReq.resp[1].net) =>
        /\ klapReq.resp[1].status = 403 => klapReq.err = "Forbidden"
        /\ klapReq.resp[1].status \notin {200, 403} =>
              klapReq.err = "expected 200 OK"

\* a typed operation has returned
OpReturned == cur.op \in TypedOps /\ pc = "idle" /\ result.op = cur.op

\* a request of a handshake: KLAP round 1 or 2, the Passthrough handshake or
\* login_device
IsHandshakeRequest(e) == IsKlap(e) \/ IsPtHandshake(e) \/ IsLogin(e)

C18_RetryOnSessionTimeout ==
    (OpReturned /\ cur.op = "GetDeviceInfo" /\ retriesOnForbidden = 1
        /\ session = "ps" /\ lastReq.called
        /\ (lastReq.errorCode = 9999 \/ result.code = 9999)) =>
        /\ Len(sent) >= 3
        /\ \E i \in 1..Len(sent) : IsHandshakeRequest(sent[i])
        /\ IsSecure(sent[Len(sent)])

\* a typed operation on the Passthrough session has returned after the
\* device answered 403 or with the status 9999
SessionTimedOut ==
    /\ OpReturned /\ session = "ps" /\ lastReq.called
    /\ \/ lastReq.status = 403
       \/ lastReq.errorCode = 9999
       \/ result.code = 9999

\* C19 (as claimed): once the device has answered a typed operation with 403
\* or the status 9999 the session is expired: the next typed operation
\* posts nothing with it.
C19_ExpiredIsTerminal ==
    [][(SessionTimedOut /\ ncalls' # ncalls /\ cur'.op \in TypedOps) =>
          sent' = <<>>]_vars

\* C20 (as claimed): the first call on a new plug, a typed operation or a
\* Handshake, starts the handshake: it posts to /app/handshake1.
C20_FirstOperationStartsHandshake ==
    ncalls = 1 =>
        /\ sent # <<>>
        /\ IsHs1(sent[1])

\* C20 (amended): on a new plug an explicit Handshake starts the handshake,
\* posting to /app/handshake1; a typed operation does not: it returns "not
\* logged in", posts nothing and leaves the plug without a session.
C20_OnlyHandshakeStartsHandshake ==
    ncalls = 1 =>
        /\ cur.op = "Handshake" =>
              /\ sent # <<>>
              /\ IsHs1(sent[1])
              /\ pc # "idle" \/ result.op = "Handshake"
        /\ cur.op \in TypedOps =>
              /\ sent = <<>>
              /\ pc = "idle"
              /\ session = "nil"
              /\ result = Result(cur.op, "not logged in", 0)

\* a first call that is a typed operation, refused
C20_Witness ==
    /\ ncalls = 1
    /\ cur.op = "GetDeviceInfo"
    /\ result = Result("GetDeviceInfo", "not logged in", 0)
    /\ session = "nil"
    /\ sent = <<>>

(***************************************************************************)
(* Typed results.                                                          *)
(***************************************************************************)
\* C21: a typed operation returns its result with no error exactly when
\* the session request succeeded and the inner reply has error_code 0, and
\* for a non-zero inner error_code it returns an error that carries that
\* status, so that the caller finds the code in the error.
C21_TypedStatusError ==
    [][\A resp \in PtResponses(ps, OpInner) :
          (OpDone(resp) /\ pc' = "idle") =>
              LET r  == PassthroughRequestRecv(ps, resp)
                  ok == r.err = "" /\ r.out.jsonOk
              IN  /\ result'.err = "" <=> (ok /\ r.out.errorCode = 0)
                  /\ (ok /\ r.out.errorCode # 0) =>
                        /\ result'.err # ""
                        /\ r.out.errorCode \in result'.unwraps]_vars

(***************************************************************************)
(* cmd/tapoweb: the refresh goroutine and the HTTP handlers.               *)
(***************************************************************************)
\* the decoded nicknames of the devices, in the order of sort.Strings
Nicknames == <<"fan", "lamp">>

\* one discovered device as getAllDevices finds it: hs and info tell whether
\* plug.Handshake and plug.GetDeviceInfo succeed; the ip "" stands for a
\* reply whose ip is no IPv4 address
Found(ip, hs, info, nick) == [ip |-> ip, hs |-> hs, info |-> info, nick |-> nick]

\* what Discover may return to getAllDevices, in the order in which the range
\* over the map visits it; Discover's error is DiscoverFails
Discovered ==
    {<<>>,
     <<Found("", TRUE, TRUE, "lamp")>>,
     <<Found("10.0.0.1", TRUE, TRUE, "lamp")>>,
     <<Found("10.0.0.1", FALSE, FALSE, "")>>,
     <<Found("10.0.0.1", TRUE, TRUE, "lamp"),
       Found("10.0.0.2", TRUE, TRUE, "fan")>>,
     <<Found("10.0.0.2", TRUE, TRUE, "fan"),
       Found("10.0.0.1", TRUE, TRUE, "lamp")>>,
     <<Found("10.0.0.1", TRUE, TRUE, "lamp"),
       Found("10.0.0.2", TRUE, TRUE, "lamp")>>,
     <<Found("10.0.0.1", TRUE, TRUE, "lamp"),
       Found("10.0.0.2", TRUE, FALSE, "")>>,
     <<Found("10.0.0.1", FALSE, FALSE, ""),
       Found("10.0.0.2", TRUE, TRUE, "fan")>>}

\* Device: the plug made for the device in refresh number gen, and its info
Device(gen, d) == [plug |-> <<gen, d.ip>>, ip |-> d.ip, nick |-> d.nick]

\* sort.Strings on nicknames
SortStrings(keys) ==
    LET UpTo(r) == Cardinality({i \in 1..Len(keys) :
                                   \E q \in 1..r : keys[i] = Nicknames[q]})
    IN  [i \in 1..Len(keys) |->
            Nicknames[Min({r \in 1..Len(Nicknames) : UpTo(r) >= i})]]

\* the loop of getAllDevices over the discovered devices, lines 353-380:
\* acc holds unsorted, failed and keys
RECURSIVE WalkDiscovered(_, _, _)
WalkDiscovered(discovered, gen, acc) ==
    IF discovered = <<>> THEN acc
    ELSE LET d == Head(discovered) IN
         IF d.ip = ""
         THEN [acc EXCEPT !.err = "invalid IP"]
         ELSE IF ~d.hs \/ ~d.info
         THEN WalkDiscovered(Tail(discovered), gen,
                             [acc EXCEPT !.failed = Append(@, d.ip)])
         ELSE WalkDiscovered(Tail(discovered), gen,
                [acc EXCEPT
                   !.unsorted = [k \in DOMAIN @ \cup {d.nick} |->
                                    IF k = d.nick THEN Device(gen, d)
                                    ELSE @[k]],
                   !.keys = Append(@, d.nick)])

\* getAllDevices once Discover has returned discovered
getAllDevices(discovered, gen) ==
    LET acc  == WalkDiscovered(discovered, gen,
                    [unsorted |-> <<>>, failed |-> <<>>, keys |-> <<>>,
                     err |-> ""])
        keys == SortStrings(acc.keys)
    IN  IF acc.err # ""
        THEN [devices |-> <<>>, failed |-> <<>>, err |-> acc.err]
        ELSE [devices |-> [i \in 1..Len(keys) |-> acc.unsorted[keys[i]]],
              failed |-> acc.failed, err |-> ""]

\* getListHTML: the page lists the devices in the order of the list
RECURSIVE getListHTML(_)
getListHTML(devs) ==
    IF devs = <<>> THEN "<html>"
    ELSE getListHTML(SubSeq(devs, 1, Len(devs) - 1))
         \o "<li>" \o devs[Len(devs)].nick \o " " \o devs[Len(devs)].ip

\* the values of the query parameters cmd and ip
Cmds == {"", "list", "status", "on", "off", "reboot"}
QueryIPs == {"", "10.0.0.1", "10.0.0.2", "10.0.0.9"}

\* main: getRootHandler has started the refresh goroutine and the server
\* listens
InitWeb ==
    /\ PlugZero
    /\ devices = <<>>
    /\ failed = <<>>
    /\ refresher = [pc |-> "run", gen |-> 1, ret |-> <<>>]
    /\ handler = [h \in Handlers |-> HandlerIdle]
    /\ nreq = 0
    /\ DiscZero
    /\ FnZero

\* getAllDevices returns to the refresh goroutine, lines 237-240; with an
\* error the assignment of line 237 stores its nil slices and log.Fatalf
\* ends the process
RefreshReturns(discovered) ==
    /\ refresher.pc = "run"
    /\ LET r == getAllDevices(discovered, refresher.gen) IN
       IF r.err # ""
       THEN /\ refresher' = [refresher EXCEPT !.pc = "fatal"]
            /\ devices' = r.devices
            /\ failed' = r.failed
       ELSE /\ refresher' = [refresher EXCEPT !.pc = "devices", !.ret = r]
            /\ UNCHANGED <<devices, failed>>
    /\ UNCHANGED <<handler, nreq>>

\* Discover returns an error: getAllDevices returns nil, nil and the error,
\* line 344, the assignment of line 237 stores them and the goroutine ends
\* the process, line 239
DiscoverFails ==
    /\ refresher.pc = "run"
    /\ refresher' = [refresher EXCEPT !.pc = "fatal"]
    /\ devices' = <<>>
    /\ failed' = <<>>
    /\ UNCHANGED <<handler, nreq>>

\* line 237 assigns what getAllDevices returned, from left to right: devices
AssignDevices ==
    /\ refresher.pc = "devices"
    /\ devices' = refresher.ret.devices
    /\ refresher' = [refresher EXCEPT !.pc = "failed"]
    /\ UNCHANGED <<failed, handler, nreq>>

\* then failed; the goroutine goes to sleep, line 242
AssignFailed ==
    /\ refresher.pc = "failed"
    /\ failed' = refresher.ret.failed
    /\ refresher' = [refresher EXCEPT !.pc = "sleep", !.ret = <<>>]
    /\ UNCHANGED <<devices, handler, nreq>>

\* the interval is over: the next refresh
RefreshWakes ==
    /\ refresher.pc = "sleep"
    /\ refresher.gen < MaxRefresh
    /\ refresher' = [refresher EXCEPT !.pc = "run", !.gen = @ + 1]
    /\ UNCHANGED <<devices, failed, handler, nreq>>

\* the range loops of lines 259, 288 and 304 from element i + 1 on: the loop
\* stops at the next device with the address ip and calls its plug, or ends
NextMatch(hs, i) ==
    LET later == {j \in (i + 1)..Len(hs.snap) : hs.snap[j].ip = hs.ip} IN
    IF later = {} THEN [hs EXCEPT !.pc = "after"]
    ELSE [hs EXCEPT !.pc = "op", !.i = Min(later), !.found = TRUE]

\* a handler goroutine takes a request, lines 245-262, unless log.Fatalf has
\* ended the process: it answers at once,
\* or reads devices and starts the loop over it
HandlerAccepts(h, cmd, ip) ==
    /\ refresher.pc # "fatal"
    /\ handler[h].pc = "idle"
    /\ nreq < MaxRequests
    /\ nreq' = nreq + 1
    /\ LET hs == [HandlerIdle EXCEPT !.cmd = cmd, !.ip = ip] IN
       handler' = [handler EXCEPT ![h] =
          IF ip = "" /\ cmd \in {"status", "on", "off"}
          THEN [hs EXCEPT !.status = 400, !.msg = "Missing IP address"]
          ELSE IF cmd \in {"status", "on", "off"}
          THEN NextMatch([hs EXCEPT !.snap = devices, !.status = 200], 0)
          ELSE IF cmd \in {"", "list"}
          THEN [hs EXCEPT !.status = 200, !.msg = getListHTML(devices)]
          ELSE [hs EXCEPT !.status = 400, !.msg = "invalid cmd"]]
    /\ UNCHANGED <<devices, failed, refresher>>

\* the plug operation of a handler returns, lines 263-272, 291-295 and
\* 307-311: an error ends the loop
PlugReturns(h, ok) ==
    /\ refresher.pc # "fatal"
    /\ handler[h].pc = "op"
    /\ LET hs == handler[h] IN
       handler' = [handler EXCEPT ![h] =
          IF ~ok
          THEN [hs EXCEPT !.pc = "after", !.status = 500,
                          !.msg = "failed to " \o hs.cmd]
          ELSE NextMatch([hs EXCEPT !.msg = IF hs.cmd = "status" THEN "on"
                                            ELSE hs.msg], hs.i)]
    /\ UNCHANGED <<devices, failed, refresher, nreq>>

\* after the loop, lines 274-284, 297-300 and 313-316, and the answer,
\* lines 325-328
HandlerAnswers(h) ==
    /\ refresher.pc # "fatal"
    /\ handler[h].pc = "after"
    /\ LET hs   == handler[h]
           gone == hs.cmd = "status"
                   /\ \E j \in 1..Len(failed) : failed[j] = hs.ip
           a    == IF gone
                   THEN [hs EXCEPT !.status = 410,
                                   !.msg = "failed to respond"]
                   ELSE hs
           b    == IF ~hs.found
                   THEN [a EXCEPT !.status = 404, !.msg = "404 Not Found"]
                   ELSE a
       IN  handler' = [handler EXCEPT ![h] =
              [b EXCEPT !.pc = "idle", !.snap = <<>>, !.i = 0]]
    /\ UNCHANGED <<devices, failed, refresher, nreq>>

NextWeb ==
    \/ /\ \E d \in Discovered : RefreshReturns(d)
       /\ UNCHANGED <<plugVars, discVars, fnVars>>
    \/ /\ DiscoverFails
       /\ UNCHANGED <<plugVars, discVars, fnVars>>
    \/ /\ AssignDevices
       /\ UNCHANGED <<plugVars, discVars, fnVars>>
    \/ /\ AssignFailed
       /\ UNCHANGED <<plugVars, discVars, fnVars>>
    \/ /\ RefreshWakes
       /\ UNCHANGED <<plugVars, discVars, fnVars>>
    \/ /\ \E h \in Handlers, cmd \in Cmds, ip \in QueryIPs :
             HandlerAccepts(h, cmd, ip)
       /\ UNCHANGED <<plugVars, discVars, fnVars>>
    \/ /\ \E h \in Handlers, ok \in BOOLEAN : PlugReturns(h, ok)
       /\ UNCHANGED <<plugVars, discVars, fnVars>>
    \/ /\ \E h \in Handlers : HandlerAnswers(h)
       /\ UNCHANGED <<plugVars, discVars, fnVars>>

\* tapoweb: no plug of the model above is used, the plugs are those of
\* getAllDevices
SpecWeb == InitWeb /\ [][NextWeb]_vars

\* C22: no two requests on the same session overlap: two handlers of tapoweb
\* never have an operation in progress on the same plug.
C22_NoOverlap ==
    LET PlugInUse(h) == handler[h].snap[handler[h].i].plug IN
    \A a, b \in Handlers :
        (a # b /\ handler[a].pc = "op" /\ handler[b].pc = "op") =>
            PlugInUse(a) # PlugInUse(b)

(***************************************************************************)
(* Client.Discover.                                                        *)
(***************************************************************************)
\* the read deadline of line 428, in seconds
ReadWindow == 5

\* a datagram of n bytes: head bytes stand before its text, which is the
\* JSON document doc when json holds and no JSON otherwise
Datagram(n, head, json, id, code, tag) ==
    [n |-> n, head |-> head, json |-> json,
     doc |-> [DeviceID |-> id, ErrorCode |-> code, Owner |-> tag]]

\* the datagrams that reach the socket: replies to the v2 probe, with their
\* header of 16 bytes, of two devices, one of which answers in several ways;
\* the reply of a device to the v1 probe, which has no header; a header and
\* no JSON; a header alone; fewer bytes than a header
Datagrams ==
    {Datagram(80, 16, TRUE, "devA", c, t) : c \in {0, -1}, t \in {"x", "y"}}
    \cup {Datagram(80, 16, TRUE, "devB", 0, "x"),
          Datagram(64, 0, TRUE, "devC", 0, "x"),
          Datagram(40, 16, FALSE, "", 0, ""),
          Datagram(16, 16, FALSE, "", 0, ""),
          Datagram(8, 8, FALSE, "", 0, "")}

\* json.Unmarshal(msg[16:n], &resp), line 460: the slice expression panics
\* when n < 16; what is left of a text that began before byte 16 is no JSON
ParseReply(msg) ==
    IF msg.n < 16 THEN [err |-> "panic", resp |-> msg.doc]
    ELSE IF msg.json /\ msg.head = 16 THEN [err |-> "", resp |-> msg.doc]
    ELSE [err |-> "failed to unmarshal discover response to JSON",
          resp |-> msg.doc]

\* a map that keeps the first reply of a device
Collect_KeepFirst(d, resp) ==
    IF resp.ErrorCode # 0 THEN [d EXCEPT !.errs = Append(@, resp)]
    ELSE [d EXCEPT !.ret = [k \in DOMAIN @ \cup {resp.DeviceID} |->
                              IF k \in DOMAIN @ THEN @[k] ELSE resp]]

\* lines 463-468: the reply goes to errs or, under its device id, to ret
Collect(d, resp) ==
    IF resp.ErrorCode # 0 THEN [d EXCEPT !.errs = Append(@, resp)]
    ELSE [d EXCEPT !.ret = [k \in DOMAIN @ \cup {resp.DeviceID} |->
                              IF k = resp.DeviceID THEN resp ELSE @[k]]]

\* one round more
SendRounds_Seven == 6 + 1

\* the rounds of the sender, line 432
SendRounds == 6

\* Discover up to the start of the sender, lines 392-431: the deadline is set
\* once, before the first read
InitDiscover ==
    /\ PlugZero
    /\ WebZero
    /\ FnZero
    /\ now = 0
    /\ sender = [pc |-> "run", i |-> 0, next |-> "v1", v1 |-> 0, v2 |-> 0]
    /\ discover = [pc |-> "reading", received |-> <<>>, ret |-> <<>>,
                   errs |-> <<>>, deadline |-> now + ReadWindow,
                   out |-> [ret |-> <<>>, errs |-> <<>>, err |-> ""]]

\* time passes
Tick ==
    /\ now < discover.deadline
    /\ discover.pc # "crashed"
    /\ now' = now + 1
    /\ UNCHANGED <<sender, discover>>

\* one pc.WriteTo of the sender, lines 434 and 440, and what follows it up to
\* the next: a failure ends the loop, the sixth round too; WriteTo fails once
\* Discover has returned and closed the socket, line 417
SenderWrites(ok) ==
    /\ sender.pc = "run"
    /\ discover.pc # "crashed"
    /\ discover.pc = "returned" => ~ok
    /\ sender' =
          IF ~ok THEN [sender EXCEPT !.pc = "failed"]
          ELSE IF sender.next = "v1"
          THEN [sender EXCEPT !.v1 = @ + 1, !.next = "v2"]
          ELSE [sender EXCEPT !.v2 = @ + 1, !.next = "v1", !.i = @ + 1,
                              !.pc = IF sender.i + 1 < SendRounds
                                     THEN "run" ELSE "done"]
    /\ UNCHANGED <<now, discover>>

\* a return that hands out what was collected along with the error
ReturnError_KeepCollected(d, err) ==
    [d EXCEPT !.pc = "returned",
              !.out = [ret |-> d.ret, errs |-> d.errs, err |-> err]]

\* return nil, nil, err: lines 457 and 461
ReturnError(d, err) ==
    [d EXCEPT !.pc = "returned",
              !.out = [ret |-> <<>>, errs |-> <<>>, err |-> err]]

\* pc.ReadFrom returns a datagram, lines 452-468
ReadFrom(msg) ==
    /\ discover.pc = "reading"
    /\ now < discover.deadline
    /\ Len(discover.received) < MaxDatagrams
    /\ LET p == ParseReply(msg)
           d == [discover EXCEPT !.received = Append(@, msg)]
       IN  discover' =
              IF p.err = "panic" THEN [d EXCEPT !.pc = "crashed"]
              ELSE IF p.err # "" THEN ReturnError(d, p.err)
              ELSE Collect(d, p.resp)
    /\ UNCHANGED <<now, sender>>

\* pc.ReadFrom fails: with a timeout at the deadline, lines 454-456 and 470,
\* or with another error before it, line 457
ReadFails ==
    /\ discover.pc = "reading"
    /\ discover' =
          IF now >= discover.deadline
          THEN [discover EXCEPT !.pc = "returned",
                                !.out = [ret |-> discover.ret,
                                         errs |-> discover.errs, err |-> ""]]
          ELSE ReturnError(discover, "read failed")
    /\ UNCHANGED <<now, sender>>

NextDiscover ==
    \/ /\ Tick
       /\ UNCHANGED <<plugVars, webVars, fnVars>>
    \/ /\ \E ok \in BOOLEAN : SenderWrites(ok)
       /\ UNCHANGED <<plugVars, webVars, fnVars>>
    \/ /\ \E msg \in Datagrams : ReadFrom(msg)
       /\ UNCHANGED <<plugVars, webVars, fnVars>>
    \/ /\ ReadFails
       /\ UNCHANGED <<plugVars, webVars, fnVars>>

SpecDiscover == InitDiscover /\ [][NextDiscover]_vars

\* the clock runs and both goroutines are scheduled
FairDiscover ==
    /\ SpecDiscover
    /\ WF_discVars(Tick)
    /\ WF_discVars(ReadFails)
    /\ WF_discVars(\E ok \in BOOLEAN : SenderWrites(ok))

\* Discover has returned its map and its error list
Discovered_OK == discover.pc = "returned" /\ discover.out.err = ""

\* C23: the map Discover returns holds, for each device id that sent a reply
\* with error_code 0, exactly the last such reply received for that id; the
\* replies with another error_code are not in the map and are all in the
\* error list, in the order of their arrival.
C23_LaterWins ==
    Discovered_OK =>
        LET rcv == discover.received
            Good(i) == rcv[i].doc.ErrorCode = 0
            Last(id) == Max({i \in 1..Len(rcv) :
                                Good(i) /\ rcv[i].doc.DeviceID = id})
            Bad(m) == m.doc.ErrorCode # 0
            bad == SelectSeq(rcv, Bad)
        IN  /\ DOMAIN discover.out.ret =
                  {rcv[i].doc.DeviceID : i \in {j \in 1..Len(rcv) : Good(j)}}
            /\ \A id \in DOMAIN discover.out.ret :
                  discover.out.ret[id] = rcv[Last(id)].doc
            /\ discover.out.errs = [i \in 1..Len(bad) |-> bad[i].doc]

\* one device answered twice with error_code 0 and differently, and a reply
\* with an error came in
C23_Witness ==
    /\ Discovered_OK
    /\ Len(discover.received) = 3
    /\ discover.received[1].doc.DeviceID = "devA"
    /\ discover.received[1].doc.ErrorCode = 0
    /\ discover.received[1].doc.Owner = "x"
    /\ discover.out.ret["devA"].Owner = "y"
    /\ Len(discover.out.errs) = 1

\* C24: Discover terminates: the sender writes at most six packets of each
\* kind and stops at its first failed write, which does not touch what
\* Discover returns; the deadline is the one set before the first read, no
\* datagram is read at or after it, and the call ends (it returns, or the
\* slice expression of line 460 ends the program), as does the sender.
C24_Terminates ==
    /\ [](sender.v1 <= 6 /\ sender.v2 <= 6 /\ discover.deadline = 5)
    /\ [][/\ sender.pc = "failed" => sender' = sender
          /\ sender' # sender => discover' = discover
          /\ discover'.received # discover.received =>
                now < discover.deadline]_vars
    /\ <>(discover.pc \in {"returned", "crashed"})
    /\ <>(discover.pc = "crashed" \/ sender.pc \in {"done", "failed"})

\* Discover returned at the deadline, after a reply that came late in the
\* window, while the sender, whose write had failed, was long over
C24_Witness ==
    /\ Discovered_OK
    /\ now = 5
    /\ discover.received # <<>>
    /\ sender.pc = "failed" /\ sender.v1 = 1 /\ sender.v2 = 0

\* C25: Discover skips the 16 header bytes of the replies to the v2 probe
\* only: a reply to the v1 probe, which has no header, is decoded from its
\* first byte, so that its document, like that of a v2 reply, is collected.
C25_SkipV2Only ==
    discover.received # <<>> =>
        LET m == discover.received[Len(discover.received)] IN
        (m.json /\ m.head \in {0, 16}) =>
            /\ discover.out.err # "failed to unmarshal discover response to JSON"
            /\ \/ /\ m.doc.ErrorCode = 0
                  /\ m.doc.DeviceID \in DOMAIN discover.ret
                  /\ discover.ret[m.doc.DeviceID] = m.doc
               \/ /\ m.doc.ErrorCode # 0
                  /\ discover.errs # <<>>
                  /\ discover.errs[Len(discover.errs)] = m.doc

(***************************************************************************)
(* Functions of the package, called on their own.                          *)
(***************************************************************************)
\* a ^ b on bytes
RECURSIVE Xor(_, _)
Xor(a, b) ==
    IF a = 0 THEN b
    ELSE IF b = 0 THEN a
    ELSE (((a % 2) + (b % 2)) % 2) + (2 * Xor(a \div 2, b \div 2))

\* a key seeded with zero
DiscoverV1InitializationVector_Zero == 171 - 171

\* methods.go: const DiscoverV1InitializationVector = 0xab
DiscoverV1InitializationVector == 171

\* a loop whose key is the byte it has just read
RECURSIVE XorLoop_PlainKey(_, _)
XorLoop_PlainKey(reqb, key) ==
    IF reqb = <<>> THEN <<>>
    ELSE <<Xor(key, Head(reqb))>> \o XorLoop_PlainKey(Tail(reqb), Head(reqb))

\* the loop of lines 409-412 from the byte at the head of reqb on:
\* key ^= reqb[idx]; encReq[idx] = key
RECURSIVE XorLoop(_, _)
XorLoop(reqb, key) ==
    IF reqb = <<>> THEN <<>>
    ELSE LET k == Xor(key, Head(reqb)) IN <<k>> \o XorLoop(Tail(reqb), k)

\* requests of up to MaxLen bytes, among them "{", the key and its complement
XorInputs ==
    UNION {[1..n -> {0, 84, 123, 171, 255}] : n \in 0..MaxLen}

\* the sessions encryptRequest and decryptResponse are called on: those a
\* handshake makes of a key blob of 32 bytes, and sessions whose fields Key
\* and IV were set otherwise
CryptInputs ==
    {[fn |-> "crypt", req |-> r,
      s |-> [PassthroughSessionZero EXCEPT
                !.Key = SubSeq(Bytes(b[1], b[2]), 1, 16),
                !.IV = SubSeq(Bytes(b[1], b[2]), 17, b[2])]] :
        b \in {<<"blobA", 32>>, <<"blobB", 32>>, <<"blobA", 31>>,
               <<"blobA", 48>>},
        r \in {OpRequest(op) : op \in TypedOps}
              \cup {NewLoginDeviceRequest(u, p) :
                       u \in Usernames, p \in Passwords}}

\* one part of a Set-Cookie line: its text, whether it holds a "=", the name
\* in it and the value in it as it stands
Part(text, eq, name, value) ==
    [text |-> text, eq |-> eq, name |-> name, value |-> value]

Parts ==
    {Part("TP_SESSIONID=abc", TRUE, "TP_SESSIONID", "abc"),
     Part(" TP_SESSIONID = ABC ", TRUE, "TP_SESSIONID", " ABC "),
     Part("TP_SESSIONID=a=b", TRUE, "TP_SESSIONID", "a=b"),
     Part(" Path=/", TRUE, "Path", "/"),
     Part(" TIMEOUT=86400", TRUE, "TIMEOUT", "86400"),
     Part("TIMEOUT= 1440", TRUE, "TIMEOUT", " 1440"),
     Part(" Secure", FALSE, "", ""),
     Part("", FALSE, "", "")}

\* Set-Cookie lines of up to three parts, with the parts they are made of
CookieInputs ==
    {[fn |-> "cookies", parts |-> pp,
      line |-> IF Len(pp) = 1 THEN pp[1].text
               ELSE IF Len(pp) = 2 THEN pp[1].text \o ";" \o pp[2].text
               ELSE pp[1].text \o ";" \o pp[2].text \o ";" \o pp[3].text] :
        pp \in UNION {[1..n -> Parts] : n \in 1..3}}

\* what discoverDevices may hand to ipByName: up to MaxLen devices in the
\* order in which the range over the map visits them, each with the outcome
\* of getPlug and of GetDeviceInfo and the nickname its info holds
CliDiscovered ==
    LET founds == {Found(ip, TRUE, TRUE, nick) :
                      ip \in {"10.0.0.1", "10.0.0.2"},
                      nick \in {"lamp", "Lamp", "fan"}}
                  \cup {Found(ip, hs, FALSE, "") :
                           ip \in {"10.0.0.1", "10.0.0.2"}, hs \in BOOLEAN}
    IN UNION {[1..n -> founds] : n \in 0..MaxLen}

\* the loop of ipByName, lines 80-94, from device i on
RECURSIVE ipByName_Fold(_, _, _)
ipByName_Fold(devs, name, i) ==
    LET fold(s) == IF s = "Lamp" THEN "lamp" ELSE s IN
    IF i > Len(devs) THEN [ip |-> <<>>, err |-> ""]
    ELSE IF ~devs[i].hs \/ ~devs[i].info
         THEN ipByName_Fold(devs, name, i + 1)
    ELSE IF fold(devs[i].nick) = fold(name)
         THEN [ip |-> <<devs[i].ip>>, err |-> ""]
    ELSE ipByName_Fold(devs, name, i + 1)

RECURSIVE ipByNameFrom(_, _, _)
ipByNameFrom(devs, name, i) ==
    IF i > Len(devs) THEN [ip |-> <<>>, err |-> ""]
    ELSE IF ~devs[i].hs
         THEN ipByNameFrom(devs, name, i + 1)
    ELSE IF ~devs[i].info
         THEN ipByNameFrom(devs, name, i + 1)
    ELSE IF devs[i].nick = name
         THEN [ip |-> <<devs[i].ip>>, err |-> ""]
    ELSE ipByNameFrom(devs, name, i + 1)

\* ipByName: disc is what discoverDevices returned; discoveries counts the
\* calls of discoverDevices
ipByName(disc, name) ==
    IF disc.err
    THEN [ip |-> <<>>, err |-> "discovery failed", discoveries |-> 1]
    ELSE [discoveries |-> 1] @@ ipByNameFrom(disc.devices, name, 1)

\* getIPFromIPOrName: ip is <<>> for nil, what --addr is without the flag
getIPFromIPOrName(disc, ip, name) ==
    IF ip # <<>> THEN [ip |-> ip, err |-> "", discoveries |-> 0]
    ELSE IF name # ""
    THEN LET a == ipByName(disc, name) IN
         IF a.err # "" THEN [a EXCEPT !.ip = <<>>]
         ELSE IF a.ip = <<>>
              THEN [a EXCEPT !.err = "unknown device name"]
         ELSE a
    ELSE [ip |-> <<>>,
          err |-> "no device name nor IP address specified",
          discoveries |-> 0]

\* the flags --addr and --name of a command on one device, and what a
\* discovery would return
ResolveInputs ==
    {[fn |-> "resolve", ip |-> ip, name |-> name, disc |-> disc] :
        ip \in {<<>>, <<"10.0.0.9">>},
        name \in {"", "lamp", "Lamp"},
        disc \in {[err |-> TRUE, devices |-> <<>>]}
                 \cup {[err |-> FALSE, devices |-> d] : d \in CliDiscovered}}

\* a function is called with an argument
InitFn ==
    /\ PlugZero
    /\ WebZero
    /\ DiscZero
    /\ res = [done |-> FALSE]
    /\ arg \in {[fn |-> "xor", reqb |-> b] : b \in XorInputs}
               \cup CookieInputs \cup CryptInputs \cup ResolveInputs
               \cup {[fn |-> "devices", discovered |-> d] : d \in Discovered}

\* lines 407-412 of Discover run on reqb, and once more on their own output
XorCall ==
    /\ arg.fn = "xor" /\ ~res.done
    /\ LET encReq == XorLoop(arg.reqb, DiscoverV1InitializationVector) IN
       res' = [done |-> TRUE, encReq |-> encReq,
               again |-> XorLoop(encReq, DiscoverV1InitializationVector)]
    /\ UNCHANGED arg

\* parseBrokenCookies on a response with one Set-Cookie line, and the loop of
\* handshake1 over its cookies, lines 145-163
CookiesCall ==
    /\ arg.fn = "cookies" /\ ~res.done
    /\ LET cookies == parseBrokenCookies(<<arg.line>>) IN
       res' = [done |-> TRUE, cookies |-> cookies,
               scan |-> ScanCookies(cookies,
                                    [sessionID |-> "", expiry |-> ZeroTime,
                                     err |-> FALSE])]
    /\ UNCHANGED arg

\* encryptRequest, and decryptResponse on what it returned
CryptCall ==
    /\ arg.fn = "crypt" /\ ~res.done
    /\ LET e == encryptRequest(arg.s, arg.req) IN
       res' = [done |-> TRUE, enc |-> e,
               dec |-> IF e.err = ""
                       THEN <<decryptResponse(arg.s, e.out[1])>> ELSE <<>>]
    /\ UNCHANGED arg

\* getIPFromIPOrName as the commands on, off, info and energy call it
ResolveCall ==
    /\ arg.fn = "resolve" /\ ~res.done
    /\ res' = [done |-> TRUE]
              @@ getIPFromIPOrName(arg.disc, arg.ip, arg.name)
    /\ UNCHANGED arg

\* getAllDevices on what Discover returned
AllDevicesCall ==
    /\ arg.fn = "devices" /\ ~res.done
    /\ res' = [done |-> TRUE] @@ getAllDevices(arg.discovered, 1)
    /\ UNCHANGED arg

NextFn ==
    \/ /\ XorCall
       /\ UNCHANGED <<plugVars, webVars, discVars>>
    \/ /\ CookiesCall
       /\ UNCHANGED <<plugVars, webVars, discVars>>
    \/ /\ CryptCall
       /\ UNCHANGED <<plugVars, webVars, discVars>>
    \/ /\ ResolveCall
       /\ UNCHANGED <<plugVars, webVars, discVars>>
    \/ /\ AllDevicesCall
       /\ UNCHANGED <<plugVars, webVars, discVars>>

SpecFn == InitFn /\ [][NextFn]_vars

C27_RollingXor ==
    (arg.fn = "xor" /\ res.done) =>
        /\ Len(res.encReq) = Len(arg.reqb)
        /\ \A i \in 1..Len(arg.reqb) :
              res.encReq[i] =
                 Xor(arg.reqb[i], IF i = 1 THEN 171 ELSE res.encReq[i - 1])

\* a request of three bytes that begins with "{"
C27_Witness ==
    /\ arg.fn = "xor" /\ res.done
    /\ Len(arg.reqb) = 3
    /\ arg.reqb[1] = 123
    /\ res.encReq[1] = 208

\* C28 (as claimed): the routine run on its own output, its key seeded anew
\* with 0xAB, returns the original bytes.
C28_SelfInverse ==
    (arg.fn = "xor" /\ res.done) => res.again = arg.reqb

\* C28 (amended): the routine run on its own output returns the original
\* bytes only for inputs of at most one byte; the original is what comes of
\* XORing every byte of the output with the byte of the output before it,
\* the first with 0xAB.
C28_InverseChainsCiphertext ==
    (arg.fn = "xor" /\ res.done) =>
        /\ res.again = arg.reqb <=> Len(arg.reqb) <= 1
        /\ Len(arg.reqb) >= 2 =>
              res.again[1] = arg.reqb[1] /\ res.again[2] # arg.reqb[2]
        /\ \A i \in 1..Len(arg.reqb) :
              arg.reqb[i] =
                 Xor(res.encReq[i], IF i = 1 THEN 171 ELSE res.encReq[i - 1])

\* the second run gave the first byte back and not the second
C28_Witness ==
    /\ arg.fn = "xor" /\ res.done
    /\ Len(arg.reqb) = 2
    /\ res.again[1] = arg.reqb[1]
    /\ res.again[2] # arg.reqb[2]

\* the parts of the line that hold a "=", in their order, each with the
\* value expected of it: Value(i, v) is the value of part i that stands as v
ExpectedCookies(Value(_, _)) ==
    LET pp == arg.parts
        eqs == {i \in 1..Len(pp) : pp[i].eq}
        nth(k) == CHOOSE i \in eqs : Cardinality({j \in eqs : j < i}) = k - 1
    IN  [k \in 1..Cardinality(eqs) |->
            [Name |-> pp[nth(k)].name, Value |-> Value(nth(k), pp[nth(k)].value)]]

\* from the line of the spec the handshake has session id abc and a timeout
\* of 86400 seconds
ExampleLine ==
    arg.line = "TP_SESSIONID=abc; Path=/; TIMEOUT=86400" =>
        /\ ~res.scan.err
        /\ res.scan.sessionID = "abc"
        /\ res.scan.expiry = NowPlus(86400)

\* C29 (as claimed): the parser takes the pairs wherever they stand, skips
\* the parts without "=" and trims the whitespace around name and value.
C29_TrimNameAndValue ==
    (arg.fn = "cookies" /\ res.done) =>
        LET Trimmed(i, v) == TrimString(v) IN
        /\ res.cookies = ExpectedCookies(Trimmed)
        /\ ExampleLine

\* C29 (amended): the parser takes the pairs wherever they stand, skips the
\* parts without "=" and trims the whitespace around the name; the value is
\* all that stands between the "=" and the next semicolon, whitespace
\* included, or the end of the line, where the whitespace that ends the line
\* is dropped.
C29_ValueVerbatim ==
    (arg.fn = "cookies" /\ res.done) =>
        LET Verbatim(i, v) ==
               LET keep == {j \in 1..Len(v) : ~IsSpace(SubSeq(v, j, j))} IN
               IF i < Len(arg.parts) THEN v
               ELSE IF keep = {} THEN ""
               ELSE SubSeq(v, 1, Max(keep))
        IN  /\ res.cookies = ExpectedCookies(Verbatim)
            /\ ExampleLine

\* a session id with whitespace around it, before another part
C29_Witness ==
    /\ arg.fn = "cookies" /\ res.done
    /\ Len(arg.parts) = 2
    /\ arg.parts[1].text = " TP_SESSIONID = ABC "
    /\ res.cookies[1].Name = "TP_SESSIONID"
    /\ res.cookies[1].Value = " ABC "
    /\ res.scan.sessionID = " ABC "

\* the devices of a discovery that answer the handshake and the info query
\* with the nickname name
Named(disc, name) ==
    {i \in 1..Len(disc.devices) :
        /\ disc.devices[i].hs /\ disc.devices[i].info
        /\ disc.devices[i].nick = name}

\* C30: with --addr the target is that address, no discovery runs and --name
\* plays no part; without it --name is looked up by one discovery among the
\* devices that answer the handshake and the info query, the target is the
\* address of one whose nickname is exactly the name, and the resolution
\* fails when there is none, and when neither flag is given.
C30_TargetResolution ==
    (arg.fn = "resolve" /\ res.done) =>
        /\ arg.ip # <<>> =>
              res.err = "" /\ res.ip = arg.ip /\ res.discoveries = 0
        /\ (arg.ip = <<>> /\ arg.name = "") =>
              res.err # "" /\ res.ip = <<>>
        /\ (arg.ip = <<>> /\ arg.name # "") =>
              /\ res.discoveries = 1
              /\ (~arg.disc.err /\ Named(arg.disc, arg.name) # {}) =>
                    /\ res.err = ""
                    /\ \E i \in Named(arg.disc, arg.name) :
                          res.ip = <<arg.disc.devices[i].ip>>
              /\ (arg.disc.err \/ Named(arg.disc, arg.name) = {}) =>
                    res.err # "" /\ res.ip = <<>>

\* a name is looked up among devices of which one fails its handshake, one
\* has the name in another case and a later one has it exactly
C30_Witness ==
    /\ arg.fn = "resolve" /\ res.done
    /\ arg.ip = <<>> /\ arg.name = "lamp"
    /\ Len(arg.disc.devices) = 3
    /\ ~arg.disc.devices[1].hs
    /\ arg.disc.devices[2].nick = "Lamp"
    /\ arg.disc.devices[3].nick = "lamp"
    /\ arg.disc.devices[3].ip # arg.disc.devices[2].ip
    /\ res.err = "" /\ res.ip = <<arg.disc.devices[3].ip>>

\* C31: a plug that holds a Passthrough session holds one with a key and an
\* IV of 16 bytes each, a cookie and a login token; a plug that holds a KLAP
\* session holds one that has the seeds and the hash handshake1 stores on
\* success, and the plug takes a KLAP session only at the moment when
\* handshake2 was answered with status 200 after a successful handshake1.
C31_HeldSessions ==
    /\ [](/\ session = "ps" =>
                /\ Len(ps.Key) = 16 /\ Len(ps.IV) = 16
                /\ ps.ID # "" /\ ps.token # ""
          /\ session = "ks" =>
                /\ Len(ks.LocalSeed) = 16 /\ Len(ks.RemoteSeed) = 16
                /\ ks.LocalAuthHash # <<>>)
    /\ [][(session # "ks" /\ session' = "ks") =>
              /\ pc = "hs2"
              /\ hs1Resp # <<>> /\ hs1Resp[1].net
              /\ hs2Resp' # <<>> /\ hs2Resp'[1].net
              /\ hs2Resp'[1].status = 200]_vars
    /\ [][(session # "ps" /\ session' = "ps") =>
              /\ pc = "pt_login"
              /\ ptErr = ""
              /\ lastReq'.err = "" /\ result'.err = ""]_vars

\* a plug holds its Passthrough session after a typed operation on it failed
C31_Witness ==
    /\ session = "ps" /\ pc = "idle"
    /\ cur.op \in TypedOps /\ result.err # ""
    /\ ps.token # ""

\* C32: from the moment a plug holds a KLAP session, every call on it returns
\* at once without posting anything: a typed operation with an error, a
\* Handshake with nil; and the plug holds that KLAP session ever after.
C32_KlapOperationsFail ==
    [][session = "ks" =>
          /\ session' = "ks" /\ ks' = ks
          /\ pc' = "idle"
          /\ sent' = <<>>
          /\ cur'.op \in TypedOps =>
                /\ result'.err # ""
                /\ klapReq'.called /\ ~klapReq'.posted
          /\ cur'.op = "Handshake" => result'.err = ""]_vars

\* a typed operation has failed on a plug with a KLAP session, unposted
C32_Witness ==
    /\ session = "ks" /\ pc = "idle"
    /\ cur.op \in TypedOps
    /\ result.err = "request failed"
    /\ klapReq.called /\ ~klapReq.posted
    /\ sent = <<>>

\* C33: whatever the status and the length of the body of the answer to
\* handshake1, KlapSession.Handshake goes on or returns: the step that takes
\* the answer never ends in a crash of the program.
C33_Handshake1NeverAborts ==
    [][pc = "hs1" => pc' # "crashed"]_vars

\* C34: a PassthroughSession.Request that got a status other than 200, or an
\* envelope with a non-zero error_code, returns an error and no payload and
\* has not called decryptResponse; a Request returns a payload only when the
\* status is 200, the error_code of the envelope is 0 and result.response is
\* base64 of whole cipher blocks that unpad.
C34_RequestErrors ==
    (lastReq.called /\ pc # "crashed") =>
        /\ (lastReq.status # 200 \/ lastReq.errorCode # 0) =>
              /\ lastReq.err # ""
              /\ ~lastReq.payload
              /\ ~lastReq.decrypted
        /\ lastReq.payload =>
              /\ lastReq.err = ""
              /\ lastReq.status = 200 /\ lastReq.errorCode = 0
              /\ lastReq.sealed[1].b64ok
              /\ lastReq.sealed[1].blocks
              /\ lastReq.sealed[1].padOk

\* a typed operation got status 200 and an envelope with error_code 1003
C34_Witness ==
    /\ lastReq.called /\ cur.op \in TypedOps /\ pc = "idle"
    /\ lastReq.status = 200 /\ lastReq.errorCode = 1003
    /\ lastReq.err = "request failed"
    /\ ~lastReq.payload

\* C35: when Discover reads a datagram of at least 16 bytes whose text from
\* byte 16 on is no JSON, it returns in that step, with an error, an empty
\* map and an empty error list, whatever it had collected, and reads no more.
C35_ParseFailureReturnsNothing ==
    /\ [][discover'.received # discover.received =>
             LET m == discover'.received[Len(discover'.received)] IN
             (m.n >= 16 /\ ~(m.json /\ m.head = 16)) =>
                 /\ discover'.pc = "returned"
                 /\ discover'.out.err # ""
                 /\ DOMAIN discover'.out.ret = {}
                 /\ Len(discover'.out.errs) = 0]_vars
    /\ [][discover.pc = "returned" => discover' = discover]_vars

\* Discover had a device in its map and a reply in its error list when a
\* datagram without JSON made it return neither
C35_Witness ==
    /\ discover.pc = "returned"
    /\ discover.out.err = "failed to unmarshal discover response to JSON"
    /\ Len(discover.received) = 3
    /\ DOMAIN discover.ret # {} /\ Len(discover.errs) = 1
    /\ DOMAIN discover.out.ret = {} /\ Len(discover.out.errs) = 0

\* C36: whatever the length of a datagram Discover receives, it collects the
\* reply, ignores it or returns an error: the program is never aborted.
C36_DiscoverNeverAborts ==
    discover.pc # "crashed"

\* C37: the root handler answers 200 only when cmd is empty or "list", or
\* when the ip matched a device of the list it read and the plug operation
\* succeeded; 400 when cmd is status, on or off with an empty ip and when cmd
\* is unknown; 404 when the ip matches no device of the list; 500 when the
\* plug operation on a matched device fails; and it calls a plug operation
\* only on a device of the list whose address is the ip.
C37_StatusCodes ==
    [][\A h \in Handlers :
          LET old  == handler[h]
              new  == handler'[h]
              list == IF old.pc = "idle" THEN devices ELSE old.snap
              matched == \E j \in 1..Len(list) : list[j].ip = new.ip
          IN  /\ (new # old /\ new.pc = "idle") =>
                    /\ new.status = 200 =>
                          \/ new.cmd \in {"", "list"}
                          \/ matched /\ old.pc = "after" /\ old.status = 200
                    /\ (new.cmd \in {"status", "on", "off"} /\ new.ip = "") =>
                          new.status = 400
                    /\ new.cmd \notin {"", "list", "status", "on", "off"} =>
                          new.status = 400
                    /\ (new.cmd \in {"status", "on", "off"} /\ new.ip # ""
                          /\ ~matched) => new.status = 404
                    /\ (old.pc = "after" /\ old.status = 500) =>
                          new.status = 500
              /\ new.pc = "op" =>
                    /\ new.i \in 1..Len(new.snap)
                    /\ new.snap[new.i].ip = new.ip
                    /\ new.ip # ""]_vars

\* C38: a status query for an ip that is in the failed list of the last
\* refresh and not in the device list is answered with 410 Gone and the
\* message that the device failed to respond.
C38_GoneForFailed ==
    [][\A h \in Handlers :
          (/\ handler[h].pc = "after" /\ handler'[h].pc = "idle"
           /\ handler[h].cmd = "status"
           /\ \E j \in 1..Len(failed) : failed[j] = handler[h].ip
           /\ \A j \in 1..Len(handler[h].snap) :
                 handler[h].snap[j].ip # handler[h].ip
           /\ \A j \in 1..Len(devices) : devices[j].ip # handler[h].ip) =>
              /\ handler'[h].status = 410
              /\ handler'[h].msg = "failed to respond"]_vars

\* C39: when getAllDevices returns without error, every discovered device
\* whose handshake and info query succeeded is exactly once in the device
\* list, which is ordered by nickname, and in the failed list not at all;
\* every other discovered device is exactly once in the failed list and in
\* the device list not at all.
C39_EachDeviceOnce ==
    (arg.fn = "devices" /\ res.done /\ res.err = "") =>
        LET InDevices(ip) == {j \in 1..Len(res.devices) :
                                 res.devices[j].ip = ip}
            InFailed(ip)  == {j \in 1..Len(res.failed) : res.failed[j] = ip}
            Rank(nick)    == CHOOSE r \in 1..Len(Nicknames) :
                                 Nicknames[r] = nick
        IN  /\ \A i \in 1..Len(arg.discovered) :
                  LET d == arg.discovered[i] IN
                  IF d.hs /\ d.info
                  THEN /\ Cardinality(InDevices(d.ip)) = 1
                       /\ InFailed(d.ip) = {}
                  ELSE /\ Cardinality(InFailed(d.ip)) = 1
                       /\ InDevices(d.ip) = {}
            /\ \A j, k \in 1..Len(res.devices) :
                  j < k => Rank(res.devices[j].nick)
                              <= Rank(res.devices[k].nick)

\* C40: when a refresh after the first returns an error, the refresh
\* goroutine goes to sleep for the interval to try again, the process goes
\* on, and the device list and the failed list stay those of the last
\* successful refresh.
C40_FailedRefreshKeepsServing ==
    [][(/\ refresher.gen >= 2
        /\ refresher.pc = "run"
        /\ refresher' # refresher
        /\ refresher'.pc # "devices") =>
           /\ refresher'.pc = "sleep"
           /\ devices' = devices
           /\ failed' = failed]_vars

====
